---- MODULE Spec2Model ----
\* Run/spinup orchestration engine of simulation.model.eval.Model:
\* the parameter index, the run directories of the spinup and perturbation
\* chains, the external jobs bound to them, and the engine's calls
\* (matching_run_dir, _f, _df) as a stack of frames that advance from one
\* suspension point (a blocking wait on a job) to the next.
\*
\* Encoding. Years are small naturals. A tolerance is a level 0..MaxTol, a
\* smaller level being a tighter (numerically smaller) tolerance and level 0
\* the value 0.0. A run directory is <<chain, index>>; "no run" (None) is <<>>.
EXTENDS Integers, Sequences, FiniteSets, TLC

\* ---------------------------------------------------------------- bounds

\* Largest years target a caller asks for.
MaxYears == 2
\* Tolerance levels are 0..MaxTol.
MaxTol == 2
\* A chain directory holds at most MaxRuns run directories.
MaxRuns == 3
\* Parameter components take the values 0..MaxParam.
MaxParam == 3
\* The parameter index holds at most MaxDb entries.
MaxDb == 3
\* Behaviours of the public entry points make at most MaxCalls calls.
MaxCalls == 2
\* the _interpolate calls on one Model
MaxInterpolations == 3

\* simulation.model.constants.MODEL_SPINUP_MAX_YEARS, scaled to the model.
MODEL_SPINUP_MAX_YEARS == 3

None == <<>>

Tols == 0..MaxTol
Combinations == {"and", "or"}

\* The spinup options a caller may pass: {years, tolerance, combination}.
SpinupOptions == [years : 0..MaxYears, tolerance : 0..(MaxTol - 1), combination : Combinations]

\* ------------------------------------------------------------------ state

VARIABLES
    db,      \* parameter index: sequence of stored database entries
    runs,    \* chain id -> (run index -> job/run record)
    stack,   \* the engine's call stack; the last frame is the running one
    ret,     \* value returned by the frame that was popped last
    call,    \* the top-level call in progress or completed last
    mIn,     \* inputs of an evaluation of a pure function
    mOut,    \* its result
    cfg      \* the options the Model was constructed with

vars == <<db, runs, stack, ret, call, mIn, mOut, cfg>>

\* ---------------------------------------------------------- configuration

\* derivative_options['years'] and ['step_size'] (lines 785-786), and the
\* typical value of every parameter component, scaled to the model.
MODEL_DERIVATIVE_SPINUP_YEARS == 1
MODEL_DERIVATIVE_STEP_SIZE == 1
ParameterTypicalValue == 1

\* simulation.model.constants.MODEL_START_FROM_CLOSEST_PARAMETER_SET
MODEL_START_FROM_CLOSEST_PARAMETER_SET == FALSE

\* Model options: accuracy_order of the derivative options, and
\* total_concentration_factor_included_in_parameters.
Configs == [accuracy_order : {1, 2}, included : BOOLEAN]

DefaultConfig == [accuracy_order |-> 2, included |-> FALSE]

\* ------------------------------------------------ is_run_matching_options

\* The mutants of IsMatching (see the claims that name them).
IsMatching_StrictYears(exists, run_years, run_tolerance, options) ==
    IF exists
    THEN IF options.combination = "and"
         THEN (run_years >= options.years /\ run_tolerance <= options.tolerance)
              \/ run_years >= MODEL_SPINUP_MAX_YEARS
         ELSE (run_years > options.years \/ run_tolerance <= options.tolerance)
    ELSE FALSE

IsMatching_NoCap(exists, run_years, run_tolerance, options) ==
    IF exists
    THEN IF options.combination = "and"
         THEN (run_years >= options.years /\ run_tolerance <= options.tolerance)
         ELSE (run_years >= options.years \/ run_tolerance <= options.tolerance)
    ELSE FALSE

\* is_matching of is_run_matching_options for a run with the given total
\* years and reached tolerance (exists = FALSE: run_dir is None).
IsMatching(exists, run_years, run_tolerance, options) ==
    IF exists
    THEN IF options.combination = "and"
         THEN (run_years >= options.years /\ run_tolerance <= options.tolerance)
              \/ run_years >= MODEL_SPINUP_MAX_YEARS
         ELSE (run_years >= options.years \/ run_tolerance <= options.tolerance)
    ELSE FALSE

\* The warning of line 606-607: issued iff the run matches and misses the tolerance.
IsMatchingWarns(exists, run_years, run_tolerance, options) ==
    /\ exists
    /\ options.combination = "and"
    /\ IsMatching(exists, run_years, run_tolerance, options)
    /\ run_tolerance > options.tolerance

\* Line 610-611: ValueError for an unknown combination, for an existing run.
IsMatchingRaises(exists, options) ==
    exists /\ options.combination \notin {"and", "or"}

\* ------------------------------------------------------- parameter index

\* Configured absolute tolerance of the index, per component of a database
\* entry <<model parameter, total concentration factor>>.
ParamTol == 1
AbsTol == <<ParamTol, 0>>

Abs(x) == IF x < 0 THEN -x ELSE x

\* Database entries: <<model parameter, total concentration factor>>.
Entries == (0..MaxParam) \X (0..1)

\* Two entries agree within the configured tolerance, componentwise.
AreValuesEqual(a, b) == \A i \in 1..2 : Abs(a[i] - b[i]) <= AbsTol[i]

\* The numeric norm "closest" orders the stored entries by.
Distance(a, b) == Abs(a[1] - b[1]) + Abs(a[2] - b[2])

\* i comes before j in closest_indices(v): nearer first, ties by ascending index.
CloserThan(d, v, i, j) ==
    \/ Distance(d[i], v) < Distance(d[j], v)
    \/ Distance(d[i], v) = Distance(d[j], v) /\ i < j

\* index(v): the closest stored entry that agrees with v within tolerance
\* (indices count from 1; 0 is None).
DbIndex(d, v) ==
    LET M == {i \in 1..Len(d) : AreValuesEqual(d[i], v)} IN
    IF M = {} THEN 0
    ELSE CHOOSE i \in M : \A j \in M \ {i} : CloserThan(d, v, i, j)

\* add_value(v): appends the entry and returns its index.
DbAdd(d, v) == Append(d, v)

\* parameter_set_dir(parameters, create) on the database entry v of the
\* parameters: <<index (0: None), database afterwards>>.
ParameterSetDir_AlwaysAdd(d, v, create) ==
    IF create THEN <<Len(d) + 1, DbAdd(d, v)>> ELSE <<DbIndex(d, v), d>>

ParameterSetDir(d, v, create) ==
    LET index == DbIndex(d, v) IN
    IF index = 0 /\ create
    THEN <<Len(d) + 1, DbAdd(d, v)>>
    ELSE <<index, d>>

\* ------------------------------------------------------- run directories

SpinupDir(i) == <<"spinup", i>>
DerivDir(i, comp, sign) == <<"deriv", i, comp, sign>>

ChainIds ==
    {SpinupDir(i) : i \in 1..MaxDb}
    \cup {DerivDir(i, c, s) : i \in 1..MaxDb, c \in 1..2, s \in {-1, 0, 1}}

\* run_dirs(search_path): the indices of the run directories in the listing.
RunDirs(rs, c) == DOMAIN rs[c]

\* last_run_dir(search_path): named by the COUNT of the listed run directories.
LastRunDir(rs, c) ==
    LET last_run_index == Cardinality(RunDirs(rs, c)) - 1 IN
    IF last_run_index >= 0 THEN <<c, last_run_index>> ELSE None

\* previous_run_dir(run_dir)
PreviousRunDir_None(r) == None

PreviousRunDir(r) == IF r[2] > 0 THEN <<r[1], r[2] - 1>> ELSE None

\* The job metadata of run directory r can be read: the directory exists and
\* still holds its job description (a discarded run directory is kept, empty).
HasJob(rs, r) == r[2] \in DOMAIN rs[r[1]] /\ rs[r[1]][r[2]].st # "removed"

RECURSIVE Readable(_, _)
Readable(rs, r) ==
    IF r = None THEN TRUE
    ELSE HasJob(rs, r) /\ Readable(rs, PreviousRunDir(r))

\* get_total_years(run_dir): job.last_year summed down to run 0.
RECURSIVE GetTotalYears(_, _)
GetTotalYears(rs, r) ==
    IF r = None THEN 0
    ELSE rs[r[1]][r[2]].years + GetTotalYears(rs, PreviousRunDir(r))

\* get_real_tolerance(run_dir): job.last_tolerance of that run alone.
GetRealTolerance(rs, r) == rs[r[1]][r[2]].tol

\* is_run_matching_options(run_dir, spinup_options)
IsRunMatchingOptions(rs, r, options) ==
    IF r = None THEN IsMatching(FALSE, 0, 0, options)
    ELSE IsMatching(TRUE, GetTotalYears(rs, r), GetRealTolerance(rs, r), options)

\* make_new_run_dir(output_path): the index of the directory it creates.
NextRunIndex_Skip(rs, c) == Cardinality(RunDirs(rs, c)) + 1

NextRunIndex(rs, c) == Cardinality(RunDirs(rs, c))

\* The job record start_run writes into a new run directory and launches.
\* The job starts from the default initial state whatever its tracer input.
NewJob_NoInput(years, tolerance, tracer_input_dir) ==
    [req |-> years, rtol |-> tolerance, inp |-> None,
     st |-> "executing", years |-> 0, tol |-> MaxTol, obs |-> FALSE]

NewJob_DefaultTolerance(years, tolerance, tracer_input_dir) ==
    [req |-> years, rtol |-> 0, inp |-> tracer_input_dir,
     st |-> "executing", years |-> 0, tol |-> MaxTol, obs |-> FALSE]

NewJob(years, tolerance, tracer_input_dir) ==
    [req |-> years, rtol |-> tolerance, inp |-> tracer_input_dir,
     st |-> "executing", years |-> 0, tol |-> MaxTol, obs |-> FALSE]

\* runs with run directory <<c, k>> created and its job launched.
\* Lines 568-569: the model parameters and the total concentration factor
\* written into the job file of the run.
WithParameters(job, model_parameters, total_concentration_factor) ==
    job @@ [mp |-> model_parameters, factor |-> total_concentration_factor]

\* Every run of the chain is launched with the stored factor.
ChainFactor_Stored(last_run_dir, parameters) == parameters[Len(parameters)]

\* Lines 534-537: the factor of the stored parameters for the first run of a
\* chain, 1 for a run that continues a run.
ChainFactor(last_run_dir, parameters) ==
    IF last_run_dir = None THEN parameters[Len(parameters)] ELSE 1

\* Two run directories are created for one run.
WithRun_Twice(rs, c, k, job) == [rs EXCEPT ![c] = (k :> job) @@ ((k + 1) :> job) @@ rs[c]]

WithRun(rs, c, k, job) == [rs EXCEPT ![c] = (k :> job) @@ rs[c]]

\* ------------------------------------------------------------ call stack

Top == stack[Len(stack)]
SetTop(f) == [stack EXCEPT ![Len(stack)] = f]
Pop == SubSeq(stack, 1, Len(stack) - 1)
Idle == stack = <<>>

\* A frame of matching_run_dir(parameter_set_dir, spinup_options,
\* start_from_closest_parameters) on spinup chain c.
MrdFrame(c, options, sfc) ==
    [kind |-> "mrd", chain |-> c, opts |-> options, sfc |-> sfc,
     pc |-> "start", last |-> None, run |-> None]

\* The record of a top-level call: what it was asked, what it found (pre: the
\* last run of the target chain when it looked, preMatch: whether that run
\* matched), the jobs it launched, and how it ended.
\* repeat: the call repeats, with the same chain and target, the call before
\* it, which returned a run satisfying the target.
NewCall(kind, c, options, sfc, repeat) ==
    [kind |-> kind, chain |-> c, opts |-> options, sfc |-> sfc,
     state |-> "running", result |-> None, ok |-> FALSE,
     pre |-> None, preMatch |-> FALSE, launched |-> <<>>, repeat |-> repeat,
     error |-> "none", rows |-> <<>>]

NoCall == NewCall("none", None, [years |-> 0, tolerance |-> 0, combination |-> "or"], FALSE, FALSE)

\* The call record of a call that ends with the exception error.
Failed(cl, error) == [cl EXCEPT !.error = error]

\* The exception is caught by the caller of the running frame, which goes on.
Raise_Caught(rs, cl) ==
    /\ runs' = rs
    /\ stack' = SubSeq(stack, 1, Len(stack) - 1)
    /\ call' = [cl EXCEPT !.state = IF Len(stack) = 1 THEN "raised" ELSE @]
    /\ UNCHANGED <<db, ret, mIn, mOut, cfg>>

\* An exception leaves the engine: every frame is unwound.
Raise(rs, cl) ==
    /\ runs' = rs
    /\ stack' = <<>>
    /\ call' = [cl EXCEPT !.state = "raised"]
    /\ UNCHANGED <<db, ret, mIn, mOut, cfg>>

\* The running frame returns val (to its caller's frame, or to the caller of
\* the engine when it is the only frame).
Return(rs, cl, val) ==
    /\ runs' = rs
    /\ stack' = Pop
    /\ ret' = val
    /\ call' = IF Len(stack) = 1
               THEN [cl EXCEPT !.state = "returned", !.result = val,
                               !.ok = IsRunMatchingOptions(rs, val, cl.opts)]
               ELSE cl
    /\ UNCHANGED <<db, mIn, mOut, cfg>>

\* wait_until_run_job_finished(run_dir) has returned: the job is observed finished.
Observed(rs, r) == [rs EXCEPT ![r[1]][r[2]].obs = TRUE]

\* ------------------------------------------------------ matching_run_dir

\* Line 549: the years asked of the new run, years-last_years.
RemainingYears_Full(years, last_years) == years

RemainingYears(years, last_years) == years - last_years

\* Lines 526-553, reached with last_run_dir resolved (and waited for): under
\* 'or' a new run is created and started, and the call blocks on it; under 'and'
\* the call recurses into the year sub-target.
MrdExtend(f, rs, cl) ==
    LET c == f.chain
        years == f.opts.years
        tolerance == f.opts.tolerance
    IN
    IF f.opts.combination = "or"
    THEN LET k == NextRunIndex(rs, c)
             \* lines 510-511: the stored entry of the parameter set
             parameters == db[c[2]]
             last_years == IF f.last # None THEN GetTotalYears(rs, f.last) ELSE 0
         IN
         IF k \in RunDirs(rs, c) \/ ~Readable(rs, f.last)
         THEN Raise(rs, Failed(cl, "OSError"))
         ELSE /\ Cardinality(RunDirs(rs, c)) < MaxRuns
              /\ runs' = WithRun(rs, c, k,
                     WithParameters(NewJob(RemainingYears(years, last_years), tolerance, f.last),
                                    SubSeq(parameters, 1, Len(parameters) - 1),
                                    ChainFactor(f.last, parameters)))
              /\ stack' = SetTop([f EXCEPT !.pc = "wait_new", !.run = <<c, k>>])
              /\ call' = [cl EXCEPT !.launched = Append(@, <<c, k>>)]
              /\ UNCHANGED <<db, ret, mIn, mOut, cfg>>
    ELSE IF f.opts.combination = "and"
    THEN /\ runs' = rs
         /\ stack' = Append(SetTop([f EXCEPT !.pc = "and_years"]),
                            MrdFrame(c, [years |-> years, tolerance |-> 0, combination |-> "or"], f.sfc))
         /\ call' = cl
         /\ UNCHANGED <<db, ret, mIn, mOut, cfg>>
    \* neither branch of lines 531-553 is taken: run_dir is unbound at line 555
    ELSE Raise(rs, Failed(cl, "UnboundLocalError"))

\* Lines 499-519 with the test of line 503 lost: every call extends the chain.
MrdStart_NeverMatching ==
    /\ ~Idle /\ Top.kind = "mrd" /\ Top.pc = "start"
    /\ LET f == Top
           last_run_dir == LastRunDir(runs, f.chain)
           g == [f EXCEPT !.last = last_run_dir]
           seen == IF Len(stack) = 1
                   THEN [call EXCEPT !.pre = last_run_dir,
                                     !.preMatch = IsRunMatchingOptions(runs, last_run_dir, f.opts)]
                   ELSE call
       IN
       IF last_run_dir # None
       THEN /\ stack' = SetTop([g EXCEPT !.pc = "wait_last"])
            /\ call' = seen
            /\ UNCHANGED <<db, runs, ret, mIn, mOut, cfg>>
       ELSE MrdExtend(g, runs, seen)

\* Lines 489-524: the last run of the chain is looked up and tested; a matching
\* run is returned, otherwise the call goes on to wait for the last run (if
\* any) and to extend the chain.
MrdStart ==
    /\ ~Idle /\ Top.kind = "mrd" /\ Top.pc = "start"
    /\ LET f == Top
           last_run_dir == LastRunDir(runs, f.chain)
           g == [f EXCEPT !.last = last_run_dir]
           seen == IF Len(stack) = 1
                   THEN [call EXCEPT !.pre = last_run_dir,
                                     !.preMatch = IsRunMatchingOptions(runs, last_run_dir, f.opts)]
                   ELSE call
       IN
       IF ~Readable(runs, last_run_dir)
       THEN Raise(runs, Failed(seen, "OSError"))
       \* line 611: the combination is tested only when a run exists
       ELSE IF IsMatchingRaises(last_run_dir # None, f.opts)
       THEN Raise(runs, Failed(seen, "ValueError"))
       ELSE IF IsRunMatchingOptions(runs, last_run_dir, f.opts)
       THEN Return(runs, seen, last_run_dir)
       ELSE IF last_run_dir = None /\ f.sfc
       \* closest_parameter_set_dir, line 373: self.spinup_dir_with_index[i]
       \* subscripts a bound method, a TypeError whatever the database holds.
       THEN Raise(runs, Failed(seen, "TypeError"))
       ELSE IF last_run_dir # None
       THEN /\ stack' = SetTop([g EXCEPT !.pc = "wait_last"])
            /\ call' = seen
            /\ UNCHANGED <<db, runs, ret, mIn, mOut, cfg>>
       ELSE MrdExtend(g, runs, seen)

\* Line 523: blocked in wait_until_run_job_finished(last_run_dir); it returns
\* when the job has finished and raises when the job has failed.
MrdWaitLast_NoWait ==
    /\ ~Idle /\ Top.kind = "mrd" /\ Top.pc = "wait_last"
    /\ MrdExtend(Top, runs, call)

MrdWaitLast ==
    /\ ~Idle /\ Top.kind = "mrd" /\ Top.pc = "wait_last"
    /\ LET f == Top
           job == runs[f.last[1]][f.last[2]]
       IN
       \/ /\ job.st = "finished"
          /\ MrdExtend(f, Observed(runs, f.last), call)
       \/ /\ job.st = "failed"
          /\ Raise(runs, Failed(call, "ExternalJobFailure"))

\* Line 549, start_run(..., wait_until_finished=True): blocked on the new run.
MrdWaitNew ==
    /\ ~Idle /\ Top.kind = "mrd" /\ Top.pc = "wait_new"
    /\ LET f == Top
           job == runs[f.run[1]][f.run[2]]
       IN
       \/ /\ job.st = "finished"
          /\ Return(Observed(runs, f.run), call, f.run)
       \/ /\ job.st = "failed"
          /\ Raise(runs, Failed(call, "ExternalJobFailure"))

\* Line 553: the year sub-target has returned; recurse into the tolerance
\* sub-target under the hard cap.
MrdAndYears ==
    /\ ~Idle /\ Top.kind = "mrd" /\ Top.pc = "and_years"
    /\ stack' = Append(SetTop([Top EXCEPT !.pc = "and_tolerance"]),
                       MrdFrame(Top.chain,
                                [years |-> MODEL_SPINUP_MAX_YEARS,
                                 tolerance |-> Top.opts.tolerance,
                                 combination |-> "or"],
                                Top.sfc))
    /\ UNCHANGED <<db, runs, ret, call, mIn, mOut, cfg>>

\* The 'and' branch starts over when its second sub-target has returned.
MrdAndTolerance_Again ==
    /\ ~Idle /\ Top.kind = "mrd" /\ Top.pc = "and_tolerance"
    /\ stack' = SetTop([Top EXCEPT !.pc = "and_years"])
    /\ UNCHANGED <<db, runs, ret, call, mIn, mOut, cfg>>

\* Line 557: the run of the tolerance sub-target is the result.
MrdAndTolerance ==
    /\ ~Idle /\ Top.kind = "mrd" /\ Top.pc = "and_tolerance"
    /\ Return(runs, call, ret)

\* -------------------------------------------------------------------- _df

\* database_parameter_entry(parameters): the trailing total concentration
\* factor is 1 when the parameters do not include it.
DatabaseParameterEntry(c, parameters) ==
    IF c.included THEN parameters ELSE Append(parameters, 1)

\* Lines 792-799: the mask over the components of the database entry.
DefaultMask(parameters) == [i \in 1..Len(parameters) |-> TRUE]
ExtendedMask(c, mask) == IF c.included THEN mask ELSE Append(mask, FALSE)

\* Lines 805-808
HFactors(accuracy_order) == IF accuracy_order = 1 THEN <<1>> ELSE <<1, -1>>

\* Lines 851-856: the (parameter_index, h_factor_index) pairs of the active
\* mask, in the order of the two loops.
Pairs(c, mask) ==
    LET all == IF c.accuracy_order = 1
               THEN << <<1, 1>>, <<2, 1>> >>
               ELSE << <<1, 1>>, <<1, 2>>, <<2, 1>>, <<2, 2>> >>
        Active(pr) == ExtendedMask(c, mask)[pr[1]]
    IN SelectSeq(all, Active)

\* Lines 838-839: bounds of the components of a database entry (the factor has
\* no upper bound).
Infinity == MaxParam + MaxParam + 2
ParametersLowerBound == <<0, 0>>
ParametersUpperBound == <<MaxParam, Infinity>>

Sign(x) == IF x > 0 THEN 1 ELSE IF x < 0 THEN -1 ELSE 0

\* The perturbed component clamped onto the violated bound for every
\* accuracy order.
Perturbation_Clamped(c, parameters, parameter_index, h_factor_index) ==
    LET entry == [DatabaseParameterEntry(c, parameters) EXCEPT ![2] = 1]
        h_i == ParameterTypicalValue * MODEL_DERIVATIVE_STEP_SIZE
        v0 == entry[parameter_index] + HFactors(c.accuracy_order)[h_factor_index] * h_i
        value == IF v0 < ParametersLowerBound[parameter_index]
                 THEN ParametersLowerBound[parameter_index]
                 ELSE IF v0 > ParametersUpperBound[parameter_index]
                 THEN ParametersUpperBound[parameter_index]
                 ELSE v0
        h == value - parameters[parameter_index]
    IN [value |-> value, h |-> h, h_factor |-> Sign(h)]

\* The perturbed component without the handling of the bounds.
Perturbation_NoBounds(c, parameters, parameter_index, h_factor_index) ==
    LET entry == [DatabaseParameterEntry(c, parameters) EXCEPT ![2] = 1]
        h_i == ParameterTypicalValue * MODEL_DERIVATIVE_STEP_SIZE
        value == entry[parameter_index] + HFactors(c.accuracy_order)[h_factor_index] * h_i
        h == value - parameters[parameter_index]
    IN [value |-> value, h |-> h, h_factor |-> Sign(h)]

\* Lines 854-883: the perturbed component, the realized step h and the sign
\* that names the perturbation directory, for one pair.
Perturbation(c, parameters, parameter_index, h_factor_index) ==
    LET entry == [DatabaseParameterEntry(c, parameters) EXCEPT ![2] = 1]
        h_i == ParameterTypicalValue * MODEL_DERIVATIVE_STEP_SIZE
        h0 == HFactors(c.accuracy_order)[h_factor_index] * h_i
        v0 == entry[parameter_index] + h0
        violates_lower_bound == v0 < ParametersLowerBound[parameter_index]
        violates_upper_bound == v0 > ParametersUpperBound[parameter_index]
        value == IF c.accuracy_order = 1
                 THEN IF violates_lower_bound \/ violates_upper_bound
                      THEN parameters[parameter_index] + (-1) * h0
                      ELSE v0
                 ELSE IF violates_lower_bound THEN ParametersLowerBound[parameter_index]
                      ELSE IF violates_upper_bound THEN ParametersUpperBound[parameter_index]
                      ELSE v0
        h == value - parameters[parameter_index]
    IN [value |-> value, h |-> h, h_factor |-> Sign(h)]

\* Lines 834-836, 859-877: parameters_for_derivative of a pair, the database
\* entry with factor 1 and the perturbed component.
PerturbedEntry(c, parameters, parameter_index, h_factor_index) ==
    [[DatabaseParameterEntry(c, parameters) EXCEPT ![2] = 1] EXCEPT
        ![parameter_index] = Perturbation(c, parameters, parameter_index, h_factor_index).value]

\* A frame of _df(load_trajectory_function, parameters, spinup_options, mask)
\* on parameter set i.
DfFrame(i, parameters, options, mask) ==
    [kind |-> "df", set |-> i, parameters |-> parameters, opts |-> options,
     mask |-> mask,
     base |-> [years |-> options.years - MODEL_DERIVATIVE_SPINUP_YEARS,
               tolerance |-> options.tolerance,
               combination |-> options.combination],
     pc |-> "base", smrd |-> None, i |-> 1, pd |-> <<>>]

\* A discarded run directory: remove_recursively(..., exclude_dir=True) keeps
\* the directory and nothing in it (obs is kept as the record of what the engine
\* had observed of its job).
Discarded(job) ==
    [req |-> 0, rtol |-> 0, inp |-> None, st |-> "removed", years |-> 0, tol |-> 0,
     mp |-> <<>>, factor |-> 0,
     obs |-> job.obs]

\* Lines 821-832: the base spinup run has been resolved. For accuracy order 1
\* the run before it becomes the base when its years align, and f is evaluated
\* on the chain continued by the derivative years.
DfBase ==
    /\ ~Idle /\ Top.kind = "df" /\ Top.pc = "base"
    /\ LET f == Top
           run_years == GetTotalYears(runs, ret)
           previous == PreviousRunDir(ret)
           previous_years == GetTotalYears(runs, previous)
           collapse == previous_years = run_years - MODEL_DERIVATIVE_SPINUP_YEARS
           smrd == IF collapse THEN previous ELSE ret
           smry == IF collapse THEN previous_years ELSE run_years
       IN
       IF cfg.accuracy_order = 1
       THEN stack' = Append(SetTop([f EXCEPT !.pc = "f", !.smrd = smrd]),
                            MrdFrame(SpinupDir(f.set),
                                     [years |-> smry + MODEL_DERIVATIVE_SPINUP_YEARS,
                                      tolerance |-> 0, combination |-> "or"],
                                     MODEL_START_FROM_CLOSEST_PARAMETER_SET))
       ELSE stack' = SetTop([f EXCEPT !.pc = "launch", !.smrd = ret])
    /\ UNCHANGED <<db, runs, ret, call, mIn, mOut, cfg>>

\* _get_trajectory(load_trajectory_function, run_dir, model_parameters): a job
\* in a temporary directory, waited for, and the directory removed; the job
\* either finishes or fails.
DfTrajectoryF ==
    /\ ~Idle /\ Top.kind = "df" /\ Top.pc = "f"
    /\ \/ /\ stack' = SetTop([Top EXCEPT !.pc = "launch"])
          /\ UNCHANGED <<db, runs, ret, call, mIn, mOut, cfg>>
       \/ Raise(runs, Failed(call, "ExternalJobFailure"))

\* Lines 882-889: the perturbation directory of a pair and its last run.
PartialDerivativeDir(f, pr) ==
    DerivDir(f.set, pr[1], Perturbation(cfg, f.parameters, pr[1], pr[2]).h_factor)

\* Line 900: the existing run is reused iff it matches the derivative years
\* and the run recorded as its tracer input matches the base target.
ReuseTest(rs, pdrun, base) ==
    /\ IsRunMatchingOptions(rs, pdrun,
           [years |-> MODEL_DERIVATIVE_SPINUP_YEARS, tolerance |-> 0, combination |-> "or"])
    /\ IsRunMatchingOptions(rs, rs[pdrun[1]][pdrun[2]].inp, base)

\* Lines 856-920, one pass of the loop body: the existing perturbation run is
\* reused, or discarded and replaced by a fresh run that is started without
\* waiting.
\* The launch loop ends after its first pair.
AllPairsIssued_First(f, pairs) == f.i > 1

\* Lines 851-857: the launch loop has gone through every pair of the mask.
AllPairsIssued(f, pairs) == f.i > Len(pairs)

DfLaunch ==
    /\ ~Idle /\ Top.kind = "df" /\ Top.pc = "launch"
    /\ LET f == Top
           pairs == Pairs(cfg, f.mask)
       IN
       IF AllPairsIssued(f, pairs)
       THEN IF pairs = <<>>
            \* line 955: df[tracer_index] is still None
            THEN Raise(runs, Failed(call, "TypeError"))
            ELSE /\ stack' = SetTop([f EXCEPT !.pc = "wait", !.i = 1])
                 /\ UNCHANGED <<db, runs, ret, call, mIn, mOut, cfg>>
       ELSE
       LET c == PartialDerivativeDir(f, pairs[f.i])
           last == LastRunDir(runs, c)
           \* lines 886-889: a last run that cannot be loaded counts as no run
           pdrun == IF last # None /\ ~HasJob(runs, last) THEN None ELSE last
           \* lines 914-916: the perturbed database entry the run computes with
           entry == PerturbedEntry(cfg, f.parameters, pairs[f.i][1], pairs[f.i][2])
       IN
       \* line 900: get_total_years reads every run down to run 0
       IF pdrun # None /\ ~Readable(runs, pdrun)
       THEN Raise(runs, Failed(call, "OSError"))
       ELSE IF pdrun # None /\ ~Readable(runs, runs[pdrun[1]][pdrun[2]].inp)
       THEN Raise(runs, Failed(call, "OSError"))
       ELSE IF pdrun # None /\ ReuseTest(runs, pdrun, f.base)
       THEN /\ stack' = SetTop([f EXCEPT !.i = @ + 1, !.pd = Append(@, pdrun)])
            /\ UNCHANGED <<db, runs, ret, call, mIn, mOut, cfg>>
       ELSE
       LET removed == IF pdrun # None
                      THEN [runs EXCEPT ![c][pdrun[2]] = Discarded(@)]
                      ELSE runs
           k == NextRunIndex(removed, c)
       IN
       IF k \in RunDirs(removed, c)
       THEN Raise(removed, Failed(call, "OSError"))
       ELSE /\ Cardinality(RunDirs(removed, c)) < MaxRuns
            /\ runs' = WithRun(removed, c, k,
                   WithParameters(NewJob(MODEL_DERIVATIVE_SPINUP_YEARS, 0, f.smrd),
                                  SubSeq(entry, 1, Len(entry) - 1), entry[Len(entry)]))
            /\ stack' = SetTop([f EXCEPT !.i = @ + 1, !.pd = Append(@, <<c, k>>)])
            /\ call' = [call EXCEPT !.launched = Append(@, <<c, k>>)]
            /\ UNCHANGED <<db, ret, mIn, mOut, cfg>>

\* Line 933: blocked in wait_until_run_job_finished on the run of pair i.
DfWait ==
    /\ ~Idle /\ Top.kind = "df" /\ Top.pc = "wait"
    /\ LET f == Top
           r == f.pd[f.i]
           job == runs[r[1]][r[2]]
       IN
       \/ /\ job.st = "finished"
          /\ runs' = Observed(runs, r)
          /\ stack' = SetTop([f EXCEPT !.pc = "trajectory"])
          /\ UNCHANGED <<db, ret, call, mIn, mOut, cfg>>
       \/ /\ job.st = "failed"
          /\ Raise(runs, Failed(call, "ExternalJobFailure"))

\* Lines 936-951: the trajectory of the run of pair i is extracted; after the
\* last pair df is returned.
\* Lines 953-956: the rows of df selected by the mask, the parameter indices
\* whose mask component is set, in increasing order.
MaskedRows(c, mask) ==
    LET Active(i) == ExtendedMask(c, mask)[i] IN SelectSeq(<<1, 2>>, Active)

DfTrajectory ==
    /\ ~Idle /\ Top.kind = "df" /\ Top.pc = "trajectory"
    /\ LET f == Top IN
       \/ /\ f.i < Len(f.pd)
          /\ stack' = SetTop([f EXCEPT !.pc = "wait", !.i = @ + 1])
          /\ UNCHANGED <<db, runs, ret, call, mIn, mOut, cfg>>
       \/ /\ f.i = Len(f.pd)
          /\ stack' = Pop
          /\ call' = [call EXCEPT !.state = "returned", !.rows = MaskedRows(cfg, f.mask)]
          /\ UNCHANGED <<db, runs, ret, mIn, mOut, cfg>>
       \/ Raise(runs, Failed(call, "ExternalJobFailure"))

\* ---------------------------------------------------------- external jobs

\* The batch system runs a launched job one model year further and measures
\* the tolerance reached; the job ends when the requested years are done or the
\* requested tolerance is reached.
JobStep(c, k) ==
    /\ k \in DOMAIN runs[c]
    /\ runs[c][k].st = "executing"
    /\ \E t \in Tols :
        LET job == runs[c][k]
            y == IF job.req <= 0 THEN 0 ELSE job.years + 1
            done == y >= job.req \/ t <= job.rtol
        IN runs' = [runs EXCEPT ![c][k] =
                       [job EXCEPT !.years = y, !.tol = t,
                                   !.st = IF done THEN "finished" ELSE "executing"]]
    /\ UNCHANGED <<db, stack, ret, call, mIn, mOut, cfg>>

\* The batch system reports the job failed.
JobFail(c, k) ==
    /\ k \in DOMAIN runs[c]
    /\ runs[c][k].st = "executing"
    /\ runs' = [runs EXCEPT ![c][k].st = "failed"]
    /\ UNCHANGED <<db, stack, ret, call, mIn, mOut, cfg>>

\* ------------------------------------------------------- top-level calls

\* The parameter vectors the engine is called with (as database entries).
EngineEntries == {<<0, 1>>}

\* matching_run_dir(parameters, spinup_options, start_from_closest_parameters)
\* called from outside: spinup_dir resolves (or creates) the parameter set.
CallMatchingRunDir(v, options, sfc) ==
    /\ Idle
    /\ LET found == ParameterSetDir(db, v, TRUE) IN
       /\ found[1] <= MaxDb
       /\ db' = found[2]
       /\ stack' = <<MrdFrame(SpinupDir(found[1]), options, sfc)>>
       /\ call' = NewCall("mrd", SpinupDir(found[1]), options, sfc,
                          /\ call.kind = "mrd" /\ call.state = "returned" /\ call.ok
                          /\ call.chain = SpinupDir(found[1]) /\ call.opts = options)
    /\ UNCHANGED <<runs, ret, mIn, mOut, cfg>>

\* _df(load_trajectory_function, parameters, spinup_options) called (through
\* df_boxes or df_points) with the default mask: lines 785-821.
CallDf(parameters, options) ==
    /\ Idle
    /\ LET found == ParameterSetDir(db, DatabaseParameterEntry(cfg, parameters), TRUE)
           f == DfFrame(found[1], parameters, options, DefaultMask(parameters))
       IN
       /\ found[1] <= MaxDb
       /\ db' = found[2]
       /\ stack' = <<f, MrdFrame(SpinupDir(found[1]), f.base, MODEL_START_FROM_CLOSEST_PARAMETER_SET)>>
       /\ call' = NewCall("df", SpinupDir(found[1]), options, MODEL_START_FROM_CLOSEST_PARAMETER_SET,
                          /\ call.kind = "df" /\ call.state = "returned"
                          /\ call.chain = SpinupDir(found[1]) /\ call.opts = options
                          /\ \A c \in ChainIds : \A k \in DOMAIN runs[c] :
                                runs[c][k].st \in {"finished", "removed"})
    /\ UNCHANGED <<runs, ret, mIn, mOut, cfg>>

Init ==
    /\ db = <<>>
    /\ runs = [c \in ChainIds |-> <<>>]
    /\ stack = <<>>
    /\ ret = None
    /\ call = NoCall
    /\ mIn = None
    /\ mOut = None
    /\ cfg = DefaultConfig

Next ==
    \/ \E v \in EngineEntries, o \in SpinupOptions, sfc \in BOOLEAN : CallMatchingRunDir(v, o, sfc)
    \/ MrdStart
    \/ MrdWaitLast
    \/ MrdWaitNew
    \/ MrdAndYears
    \/ MrdAndTolerance
    \/ \E c \in ChainIds, k \in 0..(MaxRuns - 1) : JobStep(c, k)
    \/ \E c \in ChainIds, k \in 0..(MaxRuns - 1) : JobFail(c, k)

Spec == Init /\ [][Next]_vars

\* The engine under fair scheduling: a call is made only while the chain has
\* room for the runs it can append, the engine takes its next step when it
\* can, and the batch system goes on with a job it executes.
EngineStep == MrdStart \/ MrdWaitLast \/ MrdWaitNew \/ MrdAndYears \/ MrdAndTolerance

NextLive ==
    \/ /\ \A c \in ChainIds : Cardinality(RunDirs(runs, c)) + 2 <= MaxRuns
       /\ \E v \in EngineEntries, o \in SpinupOptions, sfc \in BOOLEAN : CallMatchingRunDir(v, o, sfc)
    \/ EngineStep
    \/ \E c \in ChainIds, k \in 0..(MaxRuns - 1) : JobStep(c, k)
    \/ \E c \in ChainIds, k \in 0..(MaxRuns - 1) : JobFail(c, k)

SpecLive ==
    /\ Init /\ [][NextLive]_vars
    /\ WF_vars(EngineStep)
    /\ WF_vars(\E c \in ChainIds, k \in 0..(MaxRuns - 1) : JobStep(c, k))

\* The engine called for derivatives, under either accuracy order.
DfParameters == {<<1>>}
DfOptions == [years : {MaxYears}, tolerance : {1}, combination : Combinations]

InitDf ==
    /\ db = <<>>
    /\ runs = [c \in ChainIds |-> <<>>]
    /\ stack = <<>>
    /\ ret = None
    /\ call = NoCall
    /\ mIn = None
    /\ mOut = None
    /\ cfg \in {c \in Configs : ~c.included}

NextDf ==
    \/ \E v \in DfParameters, o \in DfOptions : CallDf(v, o)
    \/ MrdStart
    \/ MrdWaitLast
    \/ MrdWaitNew
    \/ MrdAndYears
    \/ MrdAndTolerance
    \/ DfBase
    \/ DfTrajectoryF
    \/ DfLaunch
    \/ DfWait
    \/ DfTrajectory
    \/ \E c \in ChainIds, k \in 0..(MaxRuns - 1) : JobStep(c, k)
    \/ \E c \in ChainIds, k \in 0..(MaxRuns - 1) : JobFail(c, k)

SpecDf == InitDf /\ [][NextDf]_vars

\* ------------------------------------- is_run_matching_options, evaluated

\* The inputs of an evaluation: a run (or None) with its total years and
\* reached tolerance, and the options it is tested against.
MatchInputs ==
    [exists : BOOLEAN, run_years : 0..(MODEL_SPINUP_MAX_YEARS + 1), run_tolerance : Tols,
     options : [years : 0..(MODEL_SPINUP_MAX_YEARS + 1), tolerance : 0..(MaxTol - 1),
                combination : Combinations \cup {"xor"}]]

InitMatch ==
    /\ db = <<>>
    /\ runs = [c \in ChainIds |-> <<>>]
    /\ stack = <<>>
    /\ ret = None
    /\ call = NoCall
    /\ mIn \in MatchInputs
    /\ mOut = None
    /\ cfg = DefaultConfig

\* is_run_matching_options(run_dir, spinup_options) is evaluated on the inputs.
EvalIsRunMatchingOptions ==
    /\ mIn # None /\ mOut = None
    /\ mOut' = [is_matching |-> IsMatching(mIn.exists, mIn.run_years, mIn.run_tolerance, mIn.options),
                warned |-> IsMatchingWarns(mIn.exists, mIn.run_years, mIn.run_tolerance, mIn.options),
                raised |-> IsMatchingRaises(mIn.exists, mIn.options)]
    /\ UNCHANGED <<db, runs, stack, ret, call, mIn, cfg>>

NextMatch == EvalIsRunMatchingOptions

SpecMatch == InitMatch /\ [][NextMatch]_vars

\* ------------------------------------------ parameter_set_dir, evaluated

\* parameter_set_dir(parameters, create) is called for database entry v.
DbParameterSetDir(v, create) ==
    LET found == ParameterSetDir(db, v, create) IN
    /\ Len(found[2]) <= MaxDb
    /\ db' = found[2]
    /\ mIn' = [v |-> v, create |-> create]
    /\ mOut' = found[1]
    /\ UNCHANGED <<runs, stack, ret, call, cfg>>

NextDb == \E v \in Entries, create \in BOOLEAN : DbParameterSetDir(v, create)

SpecDb == Init /\ [][NextDb]_vars

\* ------------------------------------ the finite differences of _df, evaluated

\* A synthetic model: the output of a run is an affine function, with
\* coefficients a, of the model parameter the run computes with and of the
\* total concentration of its initial state.
Coefficients == [0..2 -> -1..1]
AffineOutput(a, model_parameter, concentration) ==
    a[0] + a[1] * model_parameter + a[2] * concentration

\* The factor of the base vector (1 when the parameters do not include it).
BaseFactor(c, parameters) == IF c.included THEN parameters[2] ELSE 1

\* Lines 832 and 917-918, 936-937: the trajectory of the base run, and of the
\* perturbation run of a pair. A perturbation run computes with the model
\* parameter of its perturbed entry and starts from the tracer of the base
\* run scaled by the factor of its entry (line 837: 1 unless perturbed).
BaseTrajectory(c, parameters, a) ==
    AffineOutput(a, parameters[1], BaseFactor(c, parameters))

PerturbedTrajectory(c, parameters, a, parameter_index, h_factor_index) ==
    LET value == Perturbation(c, parameters, parameter_index, h_factor_index).value IN
    IF parameter_index = 1
    THEN AffineOutput(a, value, BaseFactor(c, parameters))
    ELSE AffineOutput(a, parameters[1], BaseFactor(c, parameters) * value)

\* Lines 940-951: the row of df for parameter_index as <<numerator,
\* denominator>>: the sum of (-1)**h_factor_index * trajectory, minus f for
\* accuracy order 1, over h for order 1 and over the sum of |h| for order 2.
DfRow(c, parameters, a, parameter_index) ==
    LET T(j) == PerturbedTrajectory(c, parameters, a, parameter_index, j)
        H(j) == Perturbation(c, parameters, parameter_index, j).h
    IN
    IF c.accuracy_order = 1
    THEN <<T(1) - BaseTrajectory(c, parameters, a), H(1)>>
    ELSE <<T(1) - T(2), Abs(H(1)) + Abs(H(2))>>

\* Lines 856-883: the perturbations of one parameter, by h_factor_index.
Perturbations(c, parameters, parameter_index) ==
    [j \in 1..Len(HFactors(c.accuracy_order)) |->
        Perturbation(c, parameters, parameter_index, j)]

\* Inputs of an evaluation: the configuration, a valid parameter vector, an
\* active parameter index and the coefficients of the synthetic model.
FdInputs ==
    {x \in [cfg : Configs, parameters : {<<v>> : v \in 0..MaxParam} \cup ((0..MaxParam) \X (0..MaxParam)),
            parameter_index : 1..2, a : Coefficients] :
        /\ Len(x.parameters) = (IF x.cfg.included THEN 2 ELSE 1)
        /\ x.parameter_index <= Len(x.parameters)}

InitFd ==
    /\ db = <<>>
    /\ runs = [c \in ChainIds |-> <<>>]
    /\ stack = <<>>
    /\ ret = None
    /\ call = NoCall
    /\ mIn \in FdInputs
    /\ mOut = None
    /\ cfg = DefaultConfig

EvalDfRow ==
    /\ mOut = None
    /\ mOut' = [row |-> DfRow(mIn.cfg, mIn.parameters, mIn.a, mIn.parameter_index),
                pd |-> Perturbations(mIn.cfg, mIn.parameters, mIn.parameter_index)]
    /\ UNCHANGED <<db, runs, stack, ret, call, mIn, cfg>>

NextFd == EvalDfRow

SpecFd == InitFd /\ [][NextFd]_vars

\* ------------------------------------------------ listing a chain directory

\* The outcomes of util.io.fs.filter_files on a search path: the listing, or
\* an OSError/IOError (the directory is missing or vanished during the scan).
ListingOutcomes == {"ok", "error"}

\* The error of the listing escapes run_dirs.
RunDirsListed_Raises(rs, search_path, listing) ==
    IF listing = "error"
    THEN [dirs |-> {}, warned |-> FALSE, error |-> "OSError"]
    ELSE [dirs |-> RunDirs(rs, search_path), warned |-> FALSE, error |-> "none"]

\* Lines 427-437, run_dirs(search_path): an OSError/IOError of the listing is
\* caught, a warning is issued and the list is empty.
RunDirsListed(rs, search_path, listing) ==
    IF listing = "error"
    THEN [dirs |-> {}, warned |-> TRUE, error |-> "none"]
    ELSE [dirs |-> RunDirs(rs, search_path), warned |-> FALSE, error |-> "none"]

\* Lines 440-456, last_run_dir(search_path): the run named by the count of
\* the listed run directories, whose job file is loaded (lines 450-451, an
\* OSError when the directory holds no job); None for an empty list.
LastRunDirListed(rs, search_path, listing) ==
    LET listed == RunDirsListed(rs, search_path, listing)
        last_run_index == Cardinality(listed.dirs) - 1
    IN
    IF listed.error # "none"
    THEN [value |-> None, warned |-> listed.warned, error |-> listed.error]
    ELSE IF last_run_index >= 0
    THEN IF HasJob(rs, <<search_path, last_run_index>>)
         THEN [value |-> <<search_path, last_run_index>>, warned |-> listed.warned, error |-> "none"]
         ELSE [value |-> None, warned |-> listed.warned, error |-> "OSError"]
    ELSE [value |-> None, warned |-> listed.warned, error |-> "none"]

\* The chain directory that is listed.
ListedDir == DerivDir(1, 1, 1)

\* The run directories a chain can hold: runs 0..n-1, each with a job that is
\* executing or finished, or discarded.
ListedChains ==
    LET job(st) ==
            IF st = "removed"
            THEN Discarded(NewJob(0, 0, None))
            ELSE WithParameters([NewJob(MODEL_DERIVATIVE_SPINUP_YEARS, 0, None) EXCEPT
                    !.st = st,
                    !.years = IF st = "finished" THEN MODEL_DERIVATIVE_SPINUP_YEARS ELSE 0],
                 <<1>>, 1)
    IN UNION {[0..(n - 1) -> {job(st) : st \in {"executing", "finished", "removed"}}] : n \in 0..MaxRuns}

InitList ==
    /\ db = <<>>
    /\ \E content \in ListedChains :
        runs = [c \in ChainIds |-> IF c = ListedDir THEN content ELSE <<>>]
    /\ stack = <<>>
    /\ ret = None
    /\ call = NoCall
    /\ mIn \in [search_path : {ListedDir}, listing : ListingOutcomes]
    /\ mOut = None
    /\ cfg = DefaultConfig

ListRunDirs ==
    /\ mOut = None
    /\ mOut' = [op |-> "run_dirs"] @@ RunDirsListed(runs, mIn.search_path, mIn.listing)
    /\ UNCHANGED <<db, runs, stack, ret, call, mIn, cfg>>

ListLastRunDir ==
    /\ mOut = None
    /\ mOut' = [op |-> "last_run_dir"] @@ LastRunDirListed(runs, mIn.search_path, mIn.listing)
    /\ UNCHANGED <<db, runs, stack, ret, call, mIn, cfg>>

NextList == ListRunDirs \/ ListLastRunDir

SpecList == InitList /\ [][NextList]_vars

\* ------------------------------------------------ the lifecycle of a run

\* The job is launched before its job file is written.
StartRunSteps_LaunchFirst == <<"start", "write_job_file", "make_read_only_input">>

\* Lines 568-570: the calls of start_run on the job of the new run, in order.
StartRunSteps == <<"write_job_file", "start", "make_read_only_input">>

\* The outputs are marked before the job is waited for.
WaitSteps_MarkFirst == <<"make_read_only_input", "make_read_only_output", "wait_until_finished">>

\* Lines 584-586: the calls of wait_until_run_job_finished, in order.
WaitSteps == <<"make_read_only_input", "wait_until_finished", "make_read_only_output">>

\* A run directory before start_run: no job file, no job, nothing marked.
NewRun ==
    [fn |-> "start_run", i |-> 1, make_read_only |-> FALSE,
     job_file |-> FALSE, st |-> "none", years |-> 0,
     ro_input |-> FALSE, ro_output |-> FALSE,
     seen |-> FALSE, waits |-> 0, error |-> "none"]

\* The step the engine is at in the run's start_run or wait.
RunAt(step) ==
    \/ mOut.fn = "start_run" /\ mOut.i <= Len(StartRunSteps) /\ StartRunSteps[mOut.i] = step
    \/ mOut.fn = "wait" /\ mOut.i <= Len(WaitSteps) /\ WaitSteps[mOut.i] = step

\* The run after the step at hand: the next call of the function, or its end.
RunAdvance(run) ==
    IF run.fn = "start_run"
    THEN IF run.i < Len(StartRunSteps) THEN [run EXCEPT !.i = @ + 1]
         \* lines 573-578
         ELSE IF mIn.wait_until_finished
         THEN [run EXCEPT !.fn = "wait", !.i = 1]
         ELSE [run EXCEPT !.fn = "returned", !.i = 0]
    ELSE IF run.i < Len(WaitSteps) THEN [run EXCEPT !.i = @ + 1]
         ELSE [run EXCEPT !.fn = "returned", !.i = 0]

InitRun ==
    /\ db = <<>>
    /\ runs = [c \in ChainIds |-> <<>>]
    /\ stack = <<>>
    /\ ret = None
    /\ call = NoCall
    /\ mIn \in [years : 1..MaxYears, make_read_only : BOOLEAN, wait_until_finished : BOOLEAN]
    /\ mOut = [NewRun EXCEPT !.make_read_only = mIn.make_read_only]
    /\ cfg = DefaultConfig

\* Line 568: job.write_job_file(...)
RunWriteJobFile ==
    /\ mOut # None /\ RunAt("write_job_file")
    /\ mOut' = RunAdvance([mOut EXCEPT !.job_file = TRUE])
    /\ UNCHANGED <<db, runs, stack, ret, call, mIn, cfg>>

\* Line 569: job.start() hands the job to the batch system.
RunStart ==
    /\ mOut # None /\ RunAt("start")
    /\ mOut' = RunAdvance([mOut EXCEPT !.st = "executing"])
    /\ UNCHANGED <<db, runs, stack, ret, call, mIn, cfg>>

\* Lines 570, 584: job.make_read_only_input(make_read_only)
RunMakeReadOnlyInput ==
    /\ mOut # None /\ RunAt("make_read_only_input")
    /\ mOut' = RunAdvance([mOut EXCEPT !.ro_input = @ \/ mOut.make_read_only])
    /\ UNCHANGED <<db, runs, stack, ret, call, mIn, cfg>>

\* Line 585: job.wait_until_finished() returns when the job has finished and
\* raises when the job has failed.
RunWaitUntilFinished ==
    /\ mOut # None /\ RunAt("wait_until_finished")
    /\ \/ /\ mOut.st = "finished"
          /\ mOut' = RunAdvance([mOut EXCEPT !.seen = TRUE])
       \/ /\ mOut.st = "failed"
          /\ mOut' = [mOut EXCEPT !.fn = "raised", !.i = 0, !.error = "ExternalJobFailure"]
    /\ UNCHANGED <<db, runs, stack, ret, call, mIn, cfg>>

\* Line 586: job.make_read_only_output(make_read_only)
RunMakeReadOnlyOutput ==
    /\ mOut # None /\ RunAt("make_read_only_output")
    /\ mOut' = RunAdvance([mOut EXCEPT !.ro_output = @ \/ mOut.make_read_only])
    /\ UNCHANGED <<db, runs, stack, ret, call, mIn, cfg>>

\* Lines 523, 933: a later request waits for the run (make_read_only=True).
RunWaitAgain ==
    /\ mOut # None /\ mOut.fn \in {"returned", "raised"}
    /\ mOut.waits < MaxCalls
    /\ mOut' = [mOut EXCEPT !.fn = "wait", !.i = 1, !.make_read_only = TRUE,
                            !.waits = @ + 1, !.error = "none"]
    /\ UNCHANGED <<db, runs, stack, ret, call, mIn, cfg>>

\* The batch system runs the job of the run one model year further; the job
\* ends when the years of the job file are done.
RunJobStep ==
    /\ mOut # None /\ mOut.st = "executing"
    /\ mOut' = [mOut EXCEPT !.years = @ + 1,
                            !.st = IF mOut.years + 1 >= mIn.years THEN "finished" ELSE "executing"]
    /\ UNCHANGED <<db, runs, stack, ret, call, mIn, cfg>>

\* The batch system reports the job of the run failed.
RunJobFail ==
    /\ mOut # None /\ mOut.st = "executing"
    /\ mOut' = [mOut EXCEPT !.st = "failed"]
    /\ UNCHANGED <<db, runs, stack, ret, call, mIn, cfg>>

NextRun ==
    \/ RunWriteJobFile
    \/ RunStart
    \/ RunMakeReadOnlyInput
    \/ RunWaitUntilFinished
    \/ RunMakeReadOnlyOutput
    \/ RunWaitAgain
    \/ RunJobStep
    \/ RunJobFail

SpecRun == InitRun /\ [][NextRun]_vars

\* ------------------------------------------------ the cached interpolator

\* The cached interpolator keeps the data values it was built with.
Interpolate_StaleValues(m, data_points, data_values, use_cache) ==
    LET interpolator ==
            IF m.cached # None THEN m.cached
            ELSE [data_points |-> data_points, data_values |-> data_values]
    IN [cached |-> interpolator,
        used |-> interpolator,
        file |-> IF use_cache /\ m.file = None THEN interpolator ELSE m.file,
        constructed |-> m.constructed + (IF m.cached = None THEN 1 ELSE 0),
        built |-> IF m.cached = None THEN data_points ELSE m.built,
        calls |-> m.calls + 1,
        data |-> [data_points |-> data_points, data_values |-> data_values]]

\* Lines 729-766, _interpolate(data, interpolation_points, use_cache) on a
\* Model m: the cached interpolator gets the data values of the call (line
\* 739); without one, the saved interpolator is loaded and gets them (lines
\* 744-745), or a new one is constructed from the data points and values of
\* the call (line 749); it is cached (line 752), interpolates (line 755) and
\* is saved when use_cache and no file exists (lines 758-759).
Interpolate(m, data_points, data_values, use_cache) ==
    LET loads == m.cached = None /\ use_cache /\ m.file # None
        constructs == m.cached = None /\ ~loads
        interpolator ==
            IF m.cached # None THEN [m.cached EXCEPT !.data_values = data_values]
            ELSE IF loads THEN [m.file EXCEPT !.data_values = data_values]
            ELSE [data_points |-> data_points, data_values |-> data_values]
    IN [cached |-> interpolator,
        used |-> interpolator,
        file |-> IF use_cache /\ m.file = None THEN interpolator ELSE m.file,
        constructed |-> m.constructed + (IF constructs THEN 1 ELSE 0),
        built |-> IF constructs THEN data_points ELSE m.built,
        calls |-> m.calls + 1,
        data |-> [data_points |-> data_points, data_values |-> data_values]]

\* Lines 185: a new Model has no cached interpolator; the interpolator file
\* may exist, saved by an earlier process.
InitInterpolate ==
    /\ db = <<>>
    /\ runs = [c \in ChainIds |-> <<>>]
    /\ stack = <<>>
    /\ ret = None
    /\ call = NoCall
    /\ mIn = None
    /\ \E file \in {None} \cup [data_points : 1..2, data_values : 1..2] :
        mOut = [cached |-> None, used |-> None, file |-> file, constructed |-> 0,
                built |-> 0, calls |-> 0, data |-> None]
    /\ cfg = DefaultConfig

CallInterpolate ==
    /\ mOut # None /\ mOut.calls < MaxInterpolations
    /\ \E data_points \in 1..2, data_values \in 1..2, use_cache \in BOOLEAN :
        mOut' = Interpolate(mOut, data_points, data_values, use_cache)
    /\ UNCHANGED <<db, runs, stack, ret, call, mIn, cfg>>

SpecInterpolate == InitInterpolate /\ [][CallInterpolate]_vars

\* ------------------------------------------------ steps and bounds

\* Lines 859-877 for one component under any bounds and step: value is the
\* component of the parameters (one of a valid vector, within its bounds),
\* h_i the typical value times the step size, h_factor the factor of the
\* pair. The perturbed component of parameters_for_derivative.
PerturbedValue(accuracy_order, value, h_i, h_factor, lower, upper) ==
    LET h0 == h_factor * h_i
        v0 == value + h0
        violates_lower_bound == v0 < lower
        violates_upper_bound == v0 > upper
    IN IF accuracy_order = 1
       THEN IF violates_lower_bound \/ violates_upper_bound
            THEN value + (-1) * h0
            ELSE v0
       ELSE IF violates_lower_bound THEN lower
            ELSE IF violates_upper_bound THEN upper
            ELSE v0

\* A component within its bounds, a step and an accuracy order.
InitStep ==
    /\ db = <<>>
    /\ runs = [c \in ChainIds |-> <<>>]
    /\ stack = <<>>
    /\ ret = None
    /\ call = NoCall
    /\ mIn \in {x \in [accuracy_order : {1, 2}, value : 0..MaxParam, h_i : 1..MaxParam,
                       lower : 0..MaxParam, upper : 0..MaxParam] :
                    x.lower <= x.value /\ x.value <= x.upper}
    /\ mOut = None
    /\ cfg = DefaultConfig

\* The perturbed component of every pair of the component, in the order of
\* the h factors.
EvalPerturbedValue ==
    /\ mIn # None /\ mOut = None
    /\ mOut' = [n \in 1..Len(HFactors(mIn.accuracy_order)) |->
                   PerturbedValue(mIn.accuracy_order, mIn.value, mIn.h_i,
                                  HFactors(mIn.accuracy_order)[n], mIn.lower, mIn.upper)]
    /\ UNCHANGED <<db, runs, stack, ret, call, mIn, cfg>>

SpecStep == InitStep /\ [][EvalPerturbedValue]_vars

\* ------------------------------------------------ trajectory extraction

\* The source run of a trajectory extraction: run 0 of a spinup chain.
TrajectoryRun == <<SpinupDir(1), 0>>

\* _get_trajectory(load_trajectory_function, run_dir, model_parameters) is
\* called on a finished run; TMP_DIR is set or not (lines 667-671).
InitTrajectory ==
    /\ db = <<>>
    /\ \E years \in 0..MaxYears, tol \in Tols :
        runs = [c \in ChainIds |->
                   IF c = TrajectoryRun[1]
                   THEN (0 :> WithParameters([NewJob(years, 0, None) EXCEPT
                                  !.st = "finished", !.years = years, !.tol = tol, !.obs = TRUE],
                              <<1>>, 1))
                   ELSE <<>>]
    /\ stack = <<>>
    /\ ret = None
    /\ call = NoCall
    /\ mIn \in [TMP_DIR : BOOLEAN]
    /\ mOut = [pc |-> "mkdtemp", trajectory_dir |-> "none", tmp_dir |-> "none",
               st |-> "none", ro_input |-> FALSE, ro_output |-> FALSE, error |-> "none"]
    /\ cfg = DefaultConfig

\* Lines 667-675: the temporary directory is created, in TMP_DIR or in the
\* source run directory, and start_run writes and launches its job with
\* make_read_only=False (lines 568-570).
TrajectoryStart ==
    /\ mOut # None /\ mOut.pc = "mkdtemp"
    /\ mOut' = [mOut EXCEPT !.pc = "wait", !.trajectory_dir = "exists",
                            !.tmp_dir = IF mIn.TMP_DIR THEN "TMP_DIR" ELSE "run_dir",
                            !.st = "executing"]
    /\ UNCHANGED <<db, runs, stack, ret, call, mIn, cfg>>

\* The batch system ends the trajectory job: finished or failed.
TrajectoryJobEnds ==
    /\ mOut # None /\ mOut.st = "executing"
    /\ \E st \in {"finished", "failed"} : mOut' = [mOut EXCEPT !.st = st]
    /\ UNCHANGED <<db, runs, stack, ret, call, mIn, cfg>>

\* Line 577, lines 584-586 with make_read_only=False: start_run waits for
\* the job, whose failure leaves _get_trajectory as an exception.
TrajectoryWait ==
    /\ mOut # None /\ mOut.pc = "wait"
    /\ \/ /\ mOut.st = "finished"
          /\ mOut' = [mOut EXCEPT !.pc = "load"]
       \/ /\ mOut.st = "failed"
          /\ mOut' = [mOut EXCEPT !.pc = "raised", !.error = "ExternalJobFailure"]
    /\ UNCHANGED <<db, runs, stack, ret, call, mIn, cfg>>

\* Lines 678-681: load_trajectory_function reads the trajectory of every
\* tracer, or raises (an unreadable file, a NaN in the interpolation).
TrajectoryLoad ==
    /\ mOut # None /\ mOut.pc = "load"
    /\ \/ mOut' = [mOut EXCEPT !.pc = "remove"]
       \/ mOut' = [mOut EXCEPT !.pc = "raised", !.error = "LoadError"]
    /\ UNCHANGED <<db, runs, stack, ret, call, mIn, cfg>>

\* Lines 684-688: the temporary directory is removed and the values returned.
TrajectoryRemove ==
    /\ mOut # None /\ mOut.pc = "remove"
    /\ mOut' = [mOut EXCEPT !.pc = "returned", !.trajectory_dir = "removed"]
    /\ UNCHANGED <<db, runs, stack, ret, call, mIn, cfg>>

NextTrajectory ==
    \/ TrajectoryStart
    \/ TrajectoryJobEnds
    \/ TrajectoryWait
    \/ TrajectoryLoad
    \/ TrajectoryRemove

SpecTrajectory == InitTrajectory /\ [][NextTrajectory]_vars

\* ------------------------------------------------ job setups

Kinds == {"spinup", "derivative", "trajectory"}

\* A job setup dict by its 'name' entry and its 'nodes_setup' entry: "absent"
\* for a missing key, "None" for the value None, otherwise the value.
Setups == [name : {"absent", "n"}, nodes_setup : {"absent", "N"}]
NoSetup == [name |-> "missing", nodes_setup |-> "missing"]

\* The job_setup argument of Model(...): None, a setup, or a collection of
\* setups by kind (NoSetup for a kind without an entry).
JobSetupArguments ==
    {[form |-> "None"]}
    \cup {[form |-> "setup", setup |-> x] : x \in Setups}
    \cup {[form |-> "collection", kinds |-> x] :
            x \in {y \in [Kinds -> Setups \cup {NoSetup}] : \E k \in Kinds : y[k] # NoSetup}}

\* Lines 140-180: the job setup collection of the Model, a setup for every
\* kind, every setup with a name.
JobSetupCollection(job_setup) ==
    LET given(kind) == job_setup.form = "collection" /\ job_setup.kinds[kind] # NoSetup
        spinup == IF given("spinup") THEN job_setup.kinds["spinup"]
                  ELSE IF job_setup.form = "setup" THEN job_setup.setup
                  ELSE [name |-> "absent", nodes_setup |-> "absent"]
        derivative == IF given("derivative") THEN job_setup.kinds["derivative"]
                      ELSE [spinup EXCEPT !.nodes_setup = "None"]
        trajectory == IF given("trajectory") THEN job_setup.kinds["trajectory"]
                      ELSE [derivative EXCEPT !.nodes_setup = "None"]
        default_name == IF job_setup.form = "setup" /\ job_setup.setup.name # "absent"
                        THEN job_setup.setup.name ELSE ""
        named(x) == IF x.name = "absent" THEN [x EXCEPT !.name = default_name] ELSE x
    IN [kind \in Kinds |->
           named(IF kind = "spinup" THEN spinup
                 ELSE IF kind = "derivative" THEN derivative ELSE trajectory)]

\* Lines 258-265, job_setup(kind): a copy of the setup of the kind, with a
\* copy of its nodes_setup; a missing nodes_setup is passed over (KeyError),
\* a nodes_setup of None has no copy() (AttributeError). same_dict and
\* same_nodes_setup: the returned dict, its nodes_setup, is the object the
\* collection holds.
JobSetup(collection, kind) ==
    IF collection[kind].nodes_setup = "None"
    THEN [error |-> "AttributeError", setup |-> NoSetup, kind |-> kind,
          same_dict |-> FALSE, same_nodes_setup |-> FALSE]
    ELSE [error |-> "none", setup |-> collection[kind], kind |-> kind,
          same_dict |-> FALSE, same_nodes_setup |-> FALSE]

InitSetup ==
    /\ db = <<>>
    /\ runs = [c \in ChainIds |-> <<>>]
    /\ stack = <<>>
    /\ ret = None
    /\ call = NoCall
    /\ mIn \in JobSetupArguments
    /\ mOut = [collection |-> JobSetupCollection(mIn),
               returned |-> [error |-> "not called", setup |-> NoSetup, kind |-> "none",
                             same_dict |-> FALSE, same_nodes_setup |-> FALSE]]
    /\ cfg = DefaultConfig

\* A caller asks for the job setup of a kind.
CallJobSetup ==
    /\ mOut # None
    /\ \E kind \in Kinds : mOut' = [mOut EXCEPT !.returned = JobSetup(mOut.collection, kind)]
    /\ UNCHANGED <<db, runs, stack, ret, call, mIn, cfg>>

\* The caller changes the setup it got: it assigns an entry of the dict, as
\* line 912 does, or changes the nodes_setup object in place. The collection
\* changes with it where it holds the same object.
MutateJobSetup ==
    /\ mOut # None /\ mOut.returned.error = "none"
    /\ \/ mOut' = [mOut EXCEPT
                      !.returned.setup.name = "changed",
                      !.collection[mOut.returned.kind].name =
                          IF mOut.returned.same_dict THEN "changed" ELSE @]
       \/ mOut' = [mOut EXCEPT
                      !.returned.setup.nodes_setup = "changed",
                      !.returned.same_nodes_setup = FALSE,
                      !.collection[mOut.returned.kind].nodes_setup =
                          IF mOut.returned.same_dict THEN "changed" ELSE @]
       \/ /\ mOut.returned.setup.nodes_setup \notin {"absent", "None"}
          /\ mOut' = [mOut EXCEPT
                      !.returned.setup.nodes_setup = "changed in place",
                      !.collection[mOut.returned.kind].nodes_setup =
                          IF mOut.returned.same_nodes_setup THEN "changed in place" ELSE @]
    /\ UNCHANGED <<db, runs, stack, ret, call, mIn, cfg>>

SpecSetup == InitSetup /\ [][CallJobSetup \/ MutateJobSetup]_vars

\* ------------------------------------------- cost function parameters
\* simulation.optimization.cost_function.Base holds a Model and the initial
\* concentrations the model was constructed with; its parameters property
\* forwards an assigned vector to the model options.

\* model_options.parameters_len of the cost function's model.
CostParametersLen == 1

\* Vectors a caller assigns to Base.parameters (np.asanyarray(parameters)).
AssignedVectors ==
    UNION {[1..n -> 1..MaxParam] : n \in 0..(CostParametersLen + 2)}

\* self.initial_base_concentrations * parameters[-1], component by component.
Scaled(concentrations, factor) ==
    [i \in DOMAIN concentrations |-> concentrations[i] * factor]

\* Base.__init__: the model is constructed and its initial concentrations are
\* kept as initial_base_concentrations; _parameters is not assigned yet.
InitCost ==
    /\ db = <<>>
    /\ runs = [c \in ChainIds |-> <<>>]
    /\ stack = <<>>
    /\ ret = None
    /\ call = NoCall
    /\ mIn \in [initial_base_concentrations : [1..1 -> 1..2],
                parameters : [1..CostParametersLen -> 1..MaxParam]]
    /\ mOut = [_parameters |-> None,
               model_parameters |-> mIn.parameters,
               concentrations |-> mIn.initial_base_concentrations,
               assigned |-> None,
               error |-> "none"]
    /\ cfg = DefaultConfig

\* The parameters setter: a vector of the model's length is passed to the
\* model options; of a vector one longer, all but the last component are
\* passed to the model options and the concentrations become the base
\* concentrations times the last component; any other length raises
\* ValueError before anything is assigned.
SetParameters(parameters) ==
    LET model_parameters_len == CostParametersLen
    IN  /\ mOut' =
            IF Len(parameters) = model_parameters_len
            THEN [mOut EXCEPT !.model_parameters = parameters,
                              !._parameters = parameters,
                              !.assigned = parameters,
                              !.error = "none"]
            ELSE IF Len(parameters) = model_parameters_len + 1
            THEN [mOut EXCEPT !.model_parameters = SubSeq(parameters, 1, Len(parameters) - 1),
                              !.concentrations =
                                  Scaled(mIn.initial_base_concentrations, parameters[Len(parameters)]),
                              !._parameters = parameters,
                              !.assigned = parameters,
                              !.error = "none"]
            ELSE [mOut EXCEPT !.assigned = parameters, !.error = "ValueError"]
        /\ UNCHANGED <<db, runs, stack, ret, call, mIn, cfg>>

SpecCost == InitCost /\ [][\E parameters \in AssignedVectors : SetParameters(parameters)]_vars

\* ------------------------------------------- migration of job option files
\* model.update_job_options.update_new_option_entries rewrites the entries of
\* a job_options.hdf5 file.  A file is the set of the option entries it
\* holds; the values do not decide which entries a migration leaves.

\* How often the migration is applied to one file.
MaxUpdates == 2

\* The entries a job option file may hold before it is migrated.
LegacyEntries ==
    {"/metos3d/tracer_input_path", "/metos3d/initial_concentrations",
     "/model/concentrations", "/model/time_step_count", "/model/time_steps_per_year",
     "/metos3d/po4_output_filename", "/metos3d/dop_output_filename",
     "/metos3d/tracer_input_dir", "/metos3d/input_filenames", "/metos3d/data_path"}

\* The i-th statement of the update function of update_new_option_entries,
\* applied to a file holding the entries e.  Reading or deleting an entry the
\* file does not hold raises KeyError; err tells whether the statement lets
\* one escape, and e is what the file holds when the statement ends.
Statement(i, e) ==
    LET Ok(f) == [e |-> f, err |-> "none"]
        KeyError(f) == [e |-> f, err |-> "KeyError"]
        Renamed(old, new) == IF old \in e THEN Ok((e \cup {new}) \ {old}) ELSE Ok(e)
    IN  CASE i = 1 ->  \* lines 101-108
                 IF {"/metos3d/tracer_input_path", "/metos3d/initial_concentrations"} \subseteq e
                 THEN Ok(e \ {"/metos3d/initial_concentrations"}) ELSE Ok(e)
          [] i = 2 ->  \* lines 110-116
                 Ok(e \ {"/model/concentrations"})
          [] i = 3 ->  \* lines 118-125
                 IF "/metos3d/initial_concentrations" \notin e /\ "/metos3d/tracer_input_path" \notin e
                 THEN Ok(e \cup {"/metos3d/initial_concentrations"}) ELSE Ok(e)
          [] i = 4 ->  \* lines 127-131
                 Ok(e \cup {"/model/time_step_multiplier"})
          [] i = 5 ->  \* lines 133-138
                 IF "/model/time_steps_per_year" \in e THEN Ok(e)
                 ELSE IF "/model/time_step_count" \in e
                      THEN Ok((e \cup {"/model/time_steps_per_year"}) \ {"/model/time_step_count"})
                      ELSE KeyError(e)
          [] i = 6 ->  \* lines 140-144
                 Ok(e \cup {"/model/tracer"})
          [] i = 7 ->  \* lines 146-154
                 IF "/metos3d/po4_output_filename" \notin e THEN Ok(e)
                 ELSE IF "/metos3d/dop_output_filename" \notin e
                      THEN KeyError(e \ {"/metos3d/po4_output_filename"})
                      ELSE Ok((e \ {"/metos3d/po4_output_filename", "/metos3d/dop_output_filename"})
                              \cup {"/metos3d/output_filenames"})
          [] i = 8 ->  \* lines 156-164
                 IF "/metos3d/po4_input_filename" \notin e THEN Ok(e)
                 ELSE IF "/metos3d/dop_input_filename" \notin e
                      THEN KeyError(e \ {"/metos3d/po4_input_filename"})
                      ELSE Ok((e \ {"/metos3d/po4_input_filename", "/metos3d/dop_input_filename"})
                              \cup {"/metos3d/input_filenames"})
          [] i = 9 ->  \* lines 166-172
                 Ok(e \ {"/metos3d/tracer_input_path"})
          [] i = 10 -> \* lines 174-190
                 IF "/metos3d/tracer_input_dir" \notin e THEN Ok(e)
                 ELSE IF "/metos3d/input_filenames" \in e
                      THEN Ok(e \cup {"/model/tracer_input_dir"})
                      ELSE KeyError(e)
          [] i = 11 -> \* lines 192-198
                 Ok(e \ {"/model/parameters_file"})
          [] i = 12 -> \* lines 200-207
                 Renamed("/metos3d/data_path", "/metos3d/data_dir")
          [] i = 13 -> \* lines 209-216
                 Renamed("/metos3d/data_path", "/metos3d/data_dir")
          [] i = 14 -> \* lines 218-225
                 Renamed("/metos3d/tracer_output_path", "/metos3d/tracer_output_dir")
          [] i = 15 -> \* lines 227-234
                 Renamed("/metos3d/output_path", "/metos3d/output_dir")
          [] i = 16 -> \* lines 236-240
                 Ok(e \cup {"/job/unfinished_file"})

\* The number of statements of the update function.
Statements == 16

\* A job option file of a run directory that has not been migrated; job
\* option files are kept read-only.  pc is the statement of the update
\* function that is next (0: no update is under way; Statements + 1: the
\* update function has returned).
InitOptions ==
    /\ db = <<>>
    /\ runs = [c \in ChainIds |-> <<>>]
    /\ stack = <<>>
    /\ ret = None
    /\ call = NoCall
    /\ mIn \in [entries : SUBSET LegacyEntries]
    /\ mOut = [entries |-> mIn.entries, read_only |-> TRUE, updates |-> 0,
               error |-> "none", once |-> {}, pc |-> 0]
    /\ cfg = DefaultConfig

\* update_job_options_in_job_options_dir up to the call of the update
\* function: the file is made writable.
update_job_options_in_job_options_dir ==
    /\ mOut.pc = 0
    /\ mOut.updates < MaxUpdates
    /\ mOut' = [mOut EXCEPT !.read_only = FALSE, !.error = "none", !.pc = 1]
    /\ UNCHANGED <<db, runs, stack, ret, call, mIn, cfg>>

\* One statement of the update function.  An escaping KeyError ends the
\* update with what was written so far and leaves the file writable.
update_function ==
    /\ mOut.pc \in 1..Statements
    /\ LET done == Statement(mOut.pc, mOut.entries)
       IN  mOut' = IF done.err = "none"
                   THEN [mOut EXCEPT !.entries = done.e, !.pc = @ + 1]
                   ELSE [mOut EXCEPT !.entries = done.e, !.error = done.err, !.pc = 0,
                                     !.updates = @ + 1,
                                     !.once = IF mOut.updates = 0 THEN done.e ELSE @]
    /\ UNCHANGED <<db, runs, stack, ret, call, mIn, cfg>>

\* The update function has returned: the file is made read-only again.
make_read_only ==
    /\ mOut.pc = Statements + 1
    /\ mOut' = [mOut EXCEPT !.read_only = TRUE, !.pc = 0, !.updates = @ + 1,
                            !.once = IF mOut.updates = 0 THEN mOut.entries ELSE @]
    /\ UNCHANGED <<db, runs, stack, ret, call, mIn, cfg>>

SpecOptions ==
    InitOptions /\ [][update_job_options_in_job_options_dir \/ update_function \/ make_read_only]_vars

\* ------------------------------------------------ the public entry points

\* No Model has been constructed (or its construction raised).
NoModel == [accuracy_order |-> 0, included |-> FALSE, combination |-> "none"]

\* model_options a Model is constructed with: the accuracy order of the
\* derivative options, total_concentration_factor_included_in_parameters, and
\* the combination of the configured spinup options.
ModelOptions ==
    [accuracy_order : {1, 2, 3}, included : BOOLEAN, combination : {"or", "xor"}]

\* self.spinup_options, which f_boxes and df_boxes pass on.
ConfiguredSpinupOptions(c) ==
    [years |-> MaxYears, tolerance |-> 1, combination |-> c.combination]

\* model_parameter_len: the model has one parameter (and the optional factor).
ModelParameterLen == 1

\* Parameter vectors and masks the entry points are called with.
ApiValues == {-1, 1, MaxParam + 1}
ApiVectors ==
    {<<>>} \cup {<<a>> : a \in ApiValues} \cup {<<1, b>> : b \in ApiValues}
    \cup {<<MaxParam + 1, 1>>, <<1, 1, 1>>}
\* partial_derivatives_mask: None (given = FALSE) or a sequence of booleans.
NoMask == [given |-> FALSE, bits |-> <<>>]
Mask(bits) == [given |-> TRUE, bits |-> bits]
ApiMasks == {Mask(<<>>), Mask(<<TRUE>>), Mask(<<FALSE, TRUE>>), Mask(<<TRUE, FALSE, TRUE>>)}
\* The (parameters, mask) pairs df_boxes is called with.
ApiDfCalls ==
    {<<v, NoMask>> : v \in ApiVectors \ {<<1, 1>>, <<1, MaxParam + 1>>}}
    \cup {<<v, m>> : v \in {<<1>>, <<1, 1>>}, m \in ApiMasks}
    \cup {<< <<1>>, Mask(<<TRUE, TRUE>>) >>, << <<1>>, Mask(<<FALSE>>) >>}

\* metos3d_model_parameters_dict(parameters)['model_parameters'] (lines 298-305)
ModelParameters(c, parameters) ==
    IF c.included THEN SubSeq(parameters, 1, Len(parameters) - 1) ELSE parameters

\* check_parameters(parameters): the exception it raises, "none" when the
\* vector is accepted (and returned unchanged).
CheckParameters(c, parameters) ==
    LET model_parameters == ModelParameters(c, parameters) IN
    \* line 301: parameters[-1] of an empty vector
    IF c.included /\ parameters = <<>> THEN "IndexError"
    ELSE IF c.included /\ parameters[Len(parameters)] < 0 THEN "ValueError"
    ELSE IF Len(model_parameters) # ModelParameterLen THEN "ValueError"
    ELSE IF \E i \in 1..ModelParameterLen :
               model_parameters[i] < ParametersLowerBound[i] THEN "ValueError"
    ELSE IF \E i \in 1..ModelParameterLen :
               model_parameters[i] > ParametersUpperBound[i] THEN "ValueError"
    ELSE "none"

\* The number of entry point calls made so far (the last call is call).
CallCount(cl) == IF "n" \in DOMAIN cl THEN cl.n ELSE 0

\* The record of a top-level call of an entry point, with its arguments.
ApiCall(kind, c, parameters, mask) ==
    NewCall(kind, c, ConfiguredSpinupOptions(cfg), MODEL_START_FROM_CLOSEST_PARAMETER_SET, FALSE)
    @@ [parameters |-> parameters, mask |-> mask, n |-> CallCount(call) + 1]

\* An entry point raises before it has touched the database or a chain.
Rejected(kind, parameters, mask, error) ==
    /\ call' = [ApiCall(kind, None, parameters, mask) EXCEPT !.state = "raised", !.error = error]
    /\ UNCHANGED <<db, runs, stack, ret, mIn, mOut, cfg>>

\* Model(model_options): lines 72-79 reject an unknown combination of the
\* configured spinup options.
Construct(model_options) ==
    /\ cfg = NoModel /\ Idle
    /\ IF model_options.combination \notin {"and", "or"}
       THEN /\ call' = [ApiCall("init", None, <<>>, NoMask) EXCEPT
                           !.opts = ConfiguredSpinupOptions(model_options),
                           !.state = "raised", !.error = "ValueError", !.n = 0]
            /\ UNCHANGED <<db, runs, stack, ret, mIn, mOut, cfg>>
       ELSE /\ cfg' = model_options
            /\ UNCHANGED <<db, runs, stack, ret, call, mIn, mOut>>

\* A frame of _f(load_trajectory_function, parameters, spinup_options): below
\* the frame of its matching_run_dir call, then extracting the trajectory.
FFrame(parameters) == [kind |-> "f", parameters |-> parameters, pc |-> "trajectory"]

\* f_boxes / f_points (parameters): check_parameters, then _f up to its
\* matching_run_dir call (lines 964-990, 770-773).
FBoxes(parameters) ==
    /\ cfg # NoModel /\ Idle /\ CallCount(call) < MaxCalls
    /\ IF CheckParameters(cfg, parameters) # "none"
       THEN Rejected("f", parameters, NoMask, CheckParameters(cfg, parameters))
       ELSE LET found == ParameterSetDir(db, DatabaseParameterEntry(cfg, parameters), TRUE) IN
            /\ found[1] <= MaxDb
            /\ db' = found[2]
            /\ stack' = <<FFrame(parameters),
                          MrdFrame(SpinupDir(found[1]), ConfiguredSpinupOptions(cfg),
                                   MODEL_START_FROM_CLOSEST_PARAMETER_SET)>>
            /\ call' = ApiCall("f", SpinupDir(found[1]), parameters, NoMask)
            /\ UNCHANGED <<runs, ret, mIn, mOut, cfg>>

\* Lines 774-778: the trajectory of the matching run is extracted by a job in
\* a temporary directory, which finishes or fails.
FTrajectory ==
    /\ ~Idle /\ Top.kind = "f" /\ Top.pc = "trajectory"
    /\ \/ /\ stack' = Pop
          /\ call' = [call EXCEPT !.state = "returned", !.result = ret]
          /\ UNCHANGED <<db, runs, ret, mIn, mOut, cfg>>
       \/ Raise(runs, Failed(call, "ExternalJobFailure"))

\* Lines 792-795 and 805-810 of _df: the exception raised for a mask of the
\* wrong length or an unsupported accuracy order, "none" otherwise.
DfValidation_OrderOnly(c, parameters, mask) ==
    IF c.accuracy_order \notin {1, 2} THEN "ValueError" ELSE "none"

DfValidation(c, parameters, mask) ==
    IF mask.given /\ Len(mask.bits) # Len(parameters) THEN "ValueError"
    ELSE IF c.accuracy_order \notin {1, 2} THEN "ValueError"
    ELSE "none"

\* df_boxes / df_points (parameters, partial_derivatives_mask):
\* check_parameters, then _df up to its matching_run_dir call (lines 993-1021,
\* 785-821).
DfBoxes(parameters, mask) ==
    /\ cfg # NoModel /\ Idle /\ CallCount(call) < MaxCalls
    /\ IF CheckParameters(cfg, parameters) # "none"
       THEN Rejected("df", parameters, mask, CheckParameters(cfg, parameters))
       ELSE IF DfValidation(cfg, parameters, mask) # "none"
       THEN Rejected("df", parameters, mask, DfValidation(cfg, parameters, mask))
       ELSE LET found == ParameterSetDir(db, DatabaseParameterEntry(cfg, parameters), TRUE)
                m == IF mask.given THEN mask.bits ELSE DefaultMask(parameters)
                f == DfFrame(found[1], parameters, ConfiguredSpinupOptions(cfg), m)
            IN
            /\ found[1] <= MaxDb
            /\ db' = found[2]
            /\ stack' = <<f, MrdFrame(SpinupDir(found[1]), f.base, MODEL_START_FROM_CLOSEST_PARAMETER_SET)>>
            /\ call' = ApiCall("df", SpinupDir(found[1]), parameters, mask)
            /\ UNCHANGED <<runs, ret, mIn, mOut, cfg>>

\* Targets passed to matching_run_dir directly, for the parameter set of
\* database entry v.
ApiTargets == [years : {MaxYears}, tolerance : {1}, combination : {"and", "or", "xor"}]
ApiEntries == {<<1, MaxParam + 1>>}

MatchingRunDir(v, options) ==
    /\ cfg # NoModel /\ Idle /\ CallCount(call) < MaxCalls
    /\ LET found == ParameterSetDir(db, v, TRUE) IN
       /\ found[1] <= MaxDb
       /\ db' = found[2]
       /\ stack' = <<MrdFrame(SpinupDir(found[1]), options, FALSE)>>
       /\ call' = [ApiCall("mrd", SpinupDir(found[1]), v, NoMask) EXCEPT !.opts = options]
    /\ UNCHANGED <<runs, ret, mIn, mOut, cfg>>

InitApi ==
    /\ db = <<>>
    /\ runs = [c \in ChainIds |-> <<>>]
    /\ stack = <<>>
    /\ ret = None
    /\ call = NoCall
    /\ mIn = None
    /\ mOut = None
    /\ cfg = NoModel

NextApi ==
    \/ \E o \in ModelOptions : Construct(o)
    \/ \E v \in ApiVectors : FBoxes(v)
    \/ \E d \in ApiDfCalls : DfBoxes(d[1], d[2])
    \/ \E v \in ApiEntries, o \in ApiTargets : MatchingRunDir(v, o)
    \/ FTrajectory
    \/ MrdStart
    \/ MrdWaitLast
    \/ MrdWaitNew
    \/ MrdAndYears
    \/ MrdAndTolerance
    \/ DfBase
    \/ DfTrajectoryF
    \/ DfLaunch
    \/ DfWait
    \/ DfTrajectory
    \/ \E c \in ChainIds, k \in 0..(MaxRuns - 1) : JobStep(c, k)
    \/ \E c \in ChainIds, k \in 0..(MaxRuns - 1) : JobFail(c, k)

SpecApi == InitApi /\ [][NextApi]_vars

\* ================================================================ claims

\* The top-level matching_run_dir call has looked at its chain (lines 499-503).
MrdLooked ==
    /\ call.kind = "mrd"
    /\ \/ call.state # "running"
       \/ Len(stack) > 1
       \/ Len(stack) = 1 /\ Top.pc # "start"

\* Total years and reached tolerance of the run the call found as last run.
PreYears == GetTotalYears(runs, call.pre)
PreTolerance == GetRealTolerance(runs, call.pre)

\* C1: when the last run of the target chain already satisfies the target,
\* matching_run_dir returns that run, creates no run directory and launches no
\* job; and a call that repeats a call which returned a satisfying run (same
\* chain, same target) launches no job and returns.
C1_Idempotent ==
    /\ (MrdLooked /\ call.preMatch) =>
          /\ call.state = "returned"
          /\ call.result = call.pre
          /\ call.launched = <<>>
          /\ LastRunDir(runs, call.chain) = call.pre
    /\ (MrdLooked /\ call.repeat) =>
          /\ call.preMatch
          /\ call.launched = <<>>

C1_Witness ==
    /\ MrdLooked /\ call.repeat /\ call.state = "returned"
    /\ call.pre # None /\ call.result = call.pre

\* C2 (as claimed): matching_run_dir returns None only if the chain has no run
\* and zero years are requested; every run it returns satisfies the target.
C2_PostCondition ==
    (call.kind = "mrd" /\ call.state = "returned") =>
        IF call.result = None
        THEN call.pre = None /\ call.opts.years = 0
        ELSE call.ok

\* The runs of chain c are launched in sequence: every run that has a
\* successor was observed finished (a wait on its job returned), and at most
\* one job of the chain is executing.
SequentialChain(c) ==
    /\ \A k \in RunDirs(runs, c) : (k + 1) \in RunDirs(runs, c) => runs[c][k].obs
    /\ Cardinality({k \in RunDirs(runs, c) : runs[c][k].st = "executing"}) <= 1

\* C3 (as claimed): in every chain, main spinup chain or perturbation chain,
\* run k+1 is launched only after the job of run k was observed finished, and
\* at most one extension of the chain is in flight.
C3_SequentialEveryChain == \A c \in ChainIds : SequentialChain(c)

\* C3 (amended): in the main spinup chain of every parameter set, run k+1 is
\* launched only after the job of run k was observed finished, and at most one
\* extension of the chain is in flight.
C3_SequentialSpinupChain == \A i \in 1..MaxDb : SequentialChain(SpinupDir(i))

C3_Witness ==
    \E i \in 1..MaxDb :
        /\ RunDirs(runs, SpinupDir(i)) = {0, 1}
        /\ runs[SpinupDir(i)][0].obs
        /\ runs[SpinupDir(i)][1].st = "executing"
        /\ ~Idle /\ Top.kind = "mrd" /\ Top.pc = "wait_new"

\* C4: under 'or' an existing run matches exactly when its total years reach
\* the target years or its reached tolerance is within the target tolerance;
\* a missing run never matches.
C4_OrPredicate ==
    (mOut # None /\ mIn.options.combination = "or") =>
        /\ ~mOut.raised
        /\ mOut.is_matching =
              (/\ mIn.exists
               /\ \/ mIn.run_years >= mIn.options.years
                  \/ mIn.run_tolerance <= mIn.options.tolerance)

C4_Witness ==
    /\ mOut # None /\ mIn.options.combination = "or" /\ mIn.exists
    /\ mIn.run_years < mIn.options.years
    /\ mIn.run_tolerance = mIn.options.tolerance
    /\ mOut.is_matching

\* C5: under 'and' an existing run matches exactly when (its total years reach
\* the target years and its tolerance is within the target tolerance) or its
\* total years reach MODEL_SPINUP_MAX_YEARS; when it matches while the
\* tolerance is missed (the cap alone decided), it still matches and a warning
\* is issued, without an error.
C5_AndPredicate ==
    (mOut # None /\ mIn.options.combination = "and" /\ mIn.exists) =>
        /\ ~mOut.raised
        /\ mOut.is_matching =
              (\/ /\ mIn.run_years >= mIn.options.years
                  /\ mIn.run_tolerance <= mIn.options.tolerance
               \/ mIn.run_years >= MODEL_SPINUP_MAX_YEARS)
        /\ mOut.warned =
              (/\ mIn.run_years >= MODEL_SPINUP_MAX_YEARS
               /\ mIn.run_tolerance > mIn.options.tolerance)
        /\ mOut.warned => mOut.is_matching

C5_Witness ==
    /\ mOut # None /\ mIn.options.combination = "and" /\ mIn.exists
    /\ mIn.run_years >= MODEL_SPINUP_MAX_YEARS
    /\ mIn.run_years < mIn.options.years
    /\ mIn.run_tolerance > mIn.options.tolerance
    /\ mOut.is_matching /\ mOut.warned /\ ~mOut.raised

\* C6: an 'or' target against an empty chain, without seeding from the closest
\* parameters, launches exactly one run: run 0, requesting the full target
\* years with the target tolerance and no tracer input; the call returns that
\* run; if its job reports at least the target years the target is satisfied
\* (whatever the tolerance), the chain's last run keeps matching the target,
\* and an identical call that follows launches nothing.
C6_Run0 == runs[call.chain][0]

C6_OrOnEmptyChain ==
    (MrdLooked /\ call.opts.combination = "or" /\ ~call.sfc /\ call.pre = None) =>
        /\ call.launched = << <<call.chain, 0>> >>
        /\ C6_Run0.req = call.opts.years
        /\ C6_Run0.rtol = call.opts.tolerance
        /\ C6_Run0.inp = None
        /\ RunDirs(runs, call.chain) = {0}
        /\ call.state = "returned" =>
              /\ call.result = <<call.chain, 0>>
              /\ C6_Run0.years >= call.opts.years =>
                    /\ call.ok
                    /\ IsRunMatchingOptions(runs, LastRunDir(runs, call.chain), call.opts)

C6_Witness ==
    /\ MrdLooked /\ call.opts.combination = "or" /\ ~call.sfc /\ call.pre = None
    /\ call.state = "returned"
    /\ call.opts.years = MaxYears
    /\ C6_Run0.years = MaxYears
    /\ C6_Run0.tol > call.opts.tolerance

\* C7: an 'and' target against a chain whose last run has total years >= the
\* target years, reached tolerance > the target tolerance and total years below
\* the hard cap is unsatisfied; the year sub-target appends nothing; exactly one
\* run is appended, for the tolerance sub-target: it requests the hard cap
\* minus the accumulated years with the target tolerance and is seeded from
\* the last run.
C7_Case ==
    /\ MrdLooked /\ call.opts.combination = "and" /\ call.pre # None
    /\ runs[call.pre[1]][call.pre[2]].st = "finished"
    /\ PreYears >= call.opts.years
    /\ PreTolerance > call.opts.tolerance
    /\ PreYears < MODEL_SPINUP_MAX_YEARS

C7_AndExtendsOnce ==
    C7_Case =>
        /\ ~call.preMatch
        /\ Len(call.launched) <= 1
        /\ (stack # <<>> /\ stack[1].pc \in {"wait_last", "and_years"}) => call.launched = <<>>
        /\ \A n \in 1..Len(call.launched) :
              LET r == call.launched[n] IN
              /\ r = <<call.chain, call.pre[2] + 1>>
              /\ runs[r[1]][r[2]].req = MODEL_SPINUP_MAX_YEARS - PreYears
              /\ runs[r[1]][r[2]].rtol = call.opts.tolerance
              /\ runs[r[1]][r[2]].inp = call.pre
        /\ call.state = "returned" =>
              /\ Len(call.launched) = 1
              /\ call.result = call.launched[1]

C7_Witness ==
    /\ C7_Case /\ call.state = "returned"
    /\ Len(call.launched) = 1
    /\ call.opts.years > 0

\* C8: the total years of a spinup chain (get_total_years of its last run)
\* never decrease; when a run is appended they become the total before plus
\* the years of the appended run.
ChainTotalYears(rs, c) == GetTotalYears(rs, LastRunDir(rs, c))

C9_NoGaps ==
    [][\A c \in ChainIds :
          LET n == Cardinality(RunDirs(runs, c)) IN
          /\ RunDirs(runs', c) = 0..(Cardinality(RunDirs(runs', c)) - 1)
          /\ RunDirs(runs, c) \subseteq RunDirs(runs', c)
          /\ RunDirs(runs', c) \subseteq RunDirs(runs, c) \cup {n}
          /\ \A k \in RunDirs(runs, c) :
                \/ runs'[c][k].st = "removed"
                \/ /\ runs'[c][k].req = runs[c][k].req
                   /\ runs'[c][k].rtol = runs[c][k].rtol
                   /\ runs'[c][k].inp = runs[c][k].inp
                   /\ runs[c][k].st # "executing" =>
                         /\ runs'[c][k].st = runs[c][k].st
                         /\ runs'[c][k].years = runs[c][k].years
                         /\ runs'[c][k].tol = runs[c][k].tol]_vars

C9_Witness ==
    \E c \in ChainIds :
        /\ c[1] = "deriv"
        /\ RunDirs(runs, c) = {0, 1}
        /\ runs[c][0].st = "removed"
        /\ runs[c][1].st = "executing"
        /\ \E i \in 1..MaxDb : Cardinality(RunDirs(runs, SpinupDir(i))) >= 2

\* C10 (as claimed): vectors within tolerance of each other get the same index
\* once either is stored, whatever else the database holds; vectors not within
\* tolerance of each other never share an index.
C10_SameIndexIffWithinTolerance ==
    \A v1, v2 \in Entries :
        /\ (AreValuesEqual(v1, v2) /\ \E i \in 1..Len(db) : db[i] = v1) =>
              DbIndex(db, v1) = DbIndex(db, v2)
        /\ (~AreValuesEqual(v1, v2) /\ DbIndex(db, v1) # 0) =>
              DbIndex(db, v1) # DbIndex(db, v2)

\* C10 (amended): parameter_set_dir never stores two entries within tolerance
\* of each other, so a stored entry is found at its own index; a vector within
\* tolerance of exactly one stored entry is found at that entry's index (the
\* same index as the stored entry: the same directory), and the index returned
\* by parameter_set_dir is that of an entry within tolerance of its argument.
C10_IndexOfUniqueMatch ==
    /\ \A i \in 1..Len(db) : DbIndex(db, db[i]) = i
    /\ \A i \in 1..Len(db), v \in Entries :
          (/\ AreValuesEqual(db[i], v)
           /\ \A j \in 1..Len(db) : j # i => ~AreValuesEqual(db[j], v)) =>
              DbIndex(db, v) = DbIndex(db, db[i])
    /\ (mIn # None /\ mOut # 0) => AreValuesEqual(db[mOut], mIn.v)
    /\ (mIn # None /\ mIn.create) => mOut # 0

C10_Witness ==
    /\ Len(db) = 2
    /\ mIn # None /\ mIn.create /\ mOut = 2 /\ mIn.v # db[2]
    /\ ~AreValuesEqual(db[1], mIn.v)


\* Some chain holds a run directory.
SomeRun == \E c \in ChainIds : RunDirs(runs, c) # {}

\* C11: a df_boxes call under an accuracy order outside {1, 2}, or with a
\* mask whose length differs from the length of the parameter vector, raises
\* at once, creating no parameter set, no run directory and no job; for a
\* vector check_parameters accepts the exception is the ValueError of _df.
C11_DfValidation ==
    [][(/\ call' # call
        /\ call'.kind = "df"
        /\ \/ cfg.accuracy_order \notin {1, 2}
           \/ call'.mask.given /\ Len(call'.mask.bits) # Len(call'.parameters)) =>
          /\ call'.state = "raised"
          /\ call'.launched = <<>>
          /\ stack' = <<>>
          /\ runs' = runs
          /\ db' = db
          /\ CheckParameters(cfg, call'.parameters) = "none" => call'.error = "ValueError"]_vars

C11_Witness ==
    /\ call.kind = "df" /\ call.state = "raised" /\ call.error = "ValueError"
    /\ CheckParameters(cfg, call.parameters) = "none"
    /\ call.mask.given /\ Len(call.mask.bits) = Len(call.parameters) + 1
    /\ cfg.accuracy_order = 2
    /\ SomeRun

\* C12 (as claimed): a Model is never constructed with an unknown combination
\* (the constructor raises ValueError), and a matching_run_dir call with a
\* target of unknown combination ends with a ValueError, no run directory
\* created and no job launched, on an empty chain and on a chain with runs.
C12_UnknownCombinationRejected ==
    /\ cfg # NoModel => cfg.combination \in {"and", "or"}
    /\ call.kind = "init" => call.state = "raised" /\ call.error = "ValueError"
    /\ (MrdLooked /\ call.opts.combination \notin {"and", "or"}) =>
          /\ call.state = "raised"
          /\ call.error = "ValueError"
          /\ call.launched = <<>>

\* The model-parameter part of a vector, by the configured layout, and what
\* makes a vector invalid: a model-parameter part of the wrong length, a
\* component outside its bounds, a negative trailing factor.
VectorInvalid(c, parameters) ==
    LET n == IF c.included THEN Len(parameters) - 1 ELSE Len(parameters) IN
    \/ n # ModelParameterLen
    \/ \E i \in 1..ModelParameterLen :
          parameters[i] < ParametersLowerBound[i] \/ parameters[i] > ParametersUpperBound[i]
    \/ c.included /\ parameters[Len(parameters)] < 0

\* C13 (as claimed): f_boxes / df_boxes called with an invalid vector raise
\* ValueError at once, creating no parameter set, no run directory and no
\* job; a valid vector is accepted.
C13_InvalidVectorRejected ==
    [][(call' # call /\ call'.kind \in {"f", "df"}) =>
          IF VectorInvalid(cfg, call'.parameters)
          THEN /\ call'.state = "raised"
               /\ call'.error = "ValueError"
               /\ runs' = runs /\ db' = db /\ stack' = <<>>
          ELSE CheckParameters(cfg, call'.parameters) = "none"]_vars


AtLowerBound2 ==
    /\ mOut # None
    /\ mIn.cfg.accuracy_order = 2
    /\ mIn.parameters[mIn.parameter_index] = ParametersLowerBound[mIn.parameter_index]

DerivChains == {c \in ChainIds : c[1] = "deriv"}

\* This step waits on the perturbation run <<c, k>>: it sees its job finished
\* or failed.
WaitsOn(c, k) ==
    /\ ~Idle /\ Top.kind = "df" /\ Top.pc = "wait" /\ Top.pd[Top.i] = <<c, k>>
    /\ stack' # stack

\* C16: no wait on a perturbation run is performed before the launch or the
\* reuse decision of every (parameter, sign) pair of the active mask has
\* been issued, and a launch leaves the engine in the launch loop without
\* observing the job.
C16_LaunchBeforeAwait ==
    [][/\ \A c \in DerivChains : \A k \in DOMAIN runs[c] :
            WaitsOn(c, k) => Len(Top.pd) = Len(Pairs(cfg, Top.mask))
       /\ \A c \in DerivChains : \A k \in DOMAIN runs'[c] :
            (k \notin DOMAIN runs[c] \/ runs[c][k].st = "removed") /\ runs'[c][k].st # "removed" =>
                /\ ~runs'[c][k].obs
                /\ stack' # <<>> /\ stack'[Len(stack')].kind = "df"
                /\ stack'[Len(stack')].pc = "launch"
      ]_vars

\* The first of two perturbation runs, both launched by this call, has been
\* awaited.
C16_Witness ==
    /\ ~Idle /\ Top.kind = "df" /\ Top.pc = "trajectory" /\ Top.i = 1
    /\ Len(Top.pd) = 2
    /\ \A j \in 1..2 : \E n \in 1..Len(call.launched) : call.launched[n] = Top.pd[j]
    /\ runs[Top.pd[1][1]][Top.pd[1][2]].obs


\* The engine is in the launch loop of _df, at a pair of the active mask, and
\* this step decides on that pair.
DecidesOnPair ==
    /\ ~Idle /\ Top.kind = "df" /\ Top.pc = "launch"
    /\ Top.i <= Len(Pairs(cfg, Top.mask))
    /\ stack' # stack

\* The last run of the perturbation directory of the pair at hand exists,
\* matches {derivative years, tolerance 0, OR}, and the run recorded as its
\* tracer input matches the base spinup target.
LastRunReusable ==
    LET last == LastRunDir(runs, PartialDerivativeDir(Top, Pairs(cfg, Top.mask)[Top.i])) IN
    /\ last # None /\ HasJob(runs, last)
    /\ Readable(runs, last) /\ Readable(runs, runs[last[1]][last[2]].inp)
    /\ ReuseTest(runs, last, Top.base)

\* C17 (as claimed): for each pair of the active mask the last run of its
\* perturbation directory is reused, nothing deleted and no job launched, if
\* and only if it matches {derivative years, tolerance 0, OR} and its tracer
\* input run matches the base target; in every other case a fresh run is
\* launched in that directory.
C17_ReuseIffMatching ==
    [][DecidesOnPair =>
        LET c == PartialDerivativeDir(Top, Pairs(cfg, Top.mask)[Top.i])
            top == stack'[Len(stack')]
        IN
        IF LastRunReusable
        THEN /\ runs' = runs
             /\ call'.launched = call.launched
             /\ stack' # <<>> /\ top.pd = Append(Top.pd, LastRunDir(runs, c))
        ELSE \E k \in DOMAIN runs'[c] \ DOMAIN runs[c] :
                /\ call'.launched = Append(call.launched, <<c, k>>)
                /\ stack' # <<>> /\ top.pd = Append(Top.pd, <<c, k>>)
      ]_vars


\* C18: a failure of the external job (seen by a wait) propagates out of
\* every frame to the caller of the request, which ends with that failure;
\* the failing step launches and changes nothing, and the engine launches no
\* further job for that request: it creates no run until a new request
\* starts.
C18_NoRetry ==
    [][/\ (call.error = "none" /\ call'.error = "ExternalJobFailure") =>
            /\ ~Idle
            /\ stack' = <<>>
            /\ call' = [call EXCEPT !.error = "ExternalJobFailure", !.state = "raised"]
            /\ runs' = runs
       /\ call.error = "ExternalJobFailure" =>
            \/ /\ call'.state = "running" /\ call'.error = "none" /\ call'.launched = <<>>
               /\ ~Idle'
            \/ /\ call' = call
               /\ Idle'
               /\ \A c \in ChainIds : DOMAIN runs'[c] = DOMAIN runs[c]
      ]_vars

\* A df request has ended with the failure of a perturbation run it launched,
\* inside the frame of _df called by the request.
C18_Witness ==
    /\ call.kind = "df" /\ call.error = "ExternalJobFailure" /\ call.state = "raised"
    /\ Idle
    /\ \E n \in 1..Len(call.launched) :
        LET r == call.launched[n] IN
        r[1] \in DerivChains /\ runs[r[1]][r[2]].st = "failed"


\* The years accumulated by the last run of chain c (0 without a run).
Accumulated(c) ==
    IF LastRunDir(runs, c) = None THEN 0 ELSE GetTotalYears(runs, LastRunDir(runs, c))

\* C19 (as claimed): a run appended to a spinup chain is appended by
\* matching_run_dir for an OR target, with the last run of the chain as its
\* tracer input, and the years requested for it are the target years minus
\* the years accumulated by that run, a positive number; when the remainder
\* is <= 0 for the OR target of the running call, no run is appended.
C19_RemainingYears ==
    [][\A i \in 1..MaxDb :
        LET c == SpinupDir(i) IN
        /\ \A k \in DOMAIN runs'[c] \ DOMAIN runs[c] :
            /\ ~Idle /\ Top.kind = "mrd" /\ Top.chain = c /\ Top.opts.combination = "or"
            /\ runs'[c][k].inp = LastRunDir(runs, c)
            /\ runs'[c][k].req = Top.opts.years - Accumulated(c)
            /\ runs'[c][k].req > 0
        /\ (/\ ~Idle /\ Top.kind = "mrd" /\ Top.chain = c /\ Top.opts.combination = "or"
            /\ Readable(runs, LastRunDir(runs, c))
            /\ Top.opts.years - Accumulated(c) <= 0)
           => DOMAIN runs'[c] = DOMAIN runs[c]
      ]_vars


\* The run <<c, k>> is created by this step.
Launched(c, k) == k \in DOMAIN runs'[c] \ DOMAIN runs[c]

\* C20 (as claimed): every run k >= 1 of a chain, spinup or perturbation, is
\* launched with run k-1 of the same chain as its tracer input, and run 0
\* with no tracer input or with the last run of another chain.
C20_SeededFromPredecessor ==
    [][\A c \in ChainIds : \A k \in 0..MaxRuns :
        Launched(c, k) =>
            IF k >= 1
            THEN runs'[c][k].inp = <<c, k - 1>>
            ELSE \/ runs'[c][k].inp = None
                 \/ \E d \in ChainIds \ {c} : runs'[c][k].inp = LastRunDir(runs, d)
      ]_vars

\* C20 (amended): every run k >= 1 of a spinup chain is launched with run
\* k-1 of that chain as its tracer input and run 0 of a spinup chain with no
\* tracer input; every run of a perturbation chain, run 0 as well as a run
\* launched after a stale run was discarded, is launched with the base run
\* of the running _df as its tracer input: a run of the spinup chain of the
\* same parameter set, or no tracer input when, under accuracy order 1, the
\* base is the state before run 0.
C20_SeededFromPredecessorOrBase ==
    [][\A c \in ChainIds : \A k \in 0..MaxRuns :
        Launched(c, k) =>
            IF c \in DerivChains
            THEN /\ ~Idle /\ Top.kind = "df"
                 /\ runs'[c][k].inp = Top.smrd
                 /\ Top.smrd # None => Top.smrd[1] = SpinupDir(Top.set)
                 /\ Top.smrd = None =>
                        /\ cfg.accuracy_order = 1
                        /\ GetTotalYears(runs, <<SpinupDir(Top.set), 0>>) = MODEL_DERIVATIVE_SPINUP_YEARS
                 /\ c[2] = Top.set
            ELSE runs'[c][k].inp = PreviousRunDir(<<c, k>>)
      ]_vars

\* Run 1 of a perturbation chain, launched after run 0 was discarded, has a
\* run of the spinup chain as its tracer input, which itself was seeded from
\* its predecessor.
C20_Witness ==
    \E c \in DerivChains :
        /\ 1 \in DOMAIN runs[c]
        /\ runs[c][0].st = "removed"
        /\ runs[c][1].st # "removed"
        /\ runs[c][1].inp # None /\ runs[c][1].inp[1] = SpinupDir(c[2])
        /\ runs[c][1].inp[2] >= 1
        /\ runs[SpinupDir(c[2])][runs[c][1].inp[2]].inp = PreviousRunDir(runs[c][1].inp)


\* The last run of the nearest parameter set other than i, in the order of
\* closest_indices, that has a run; None when no other set has one.
ClosestDonor(rs, d, i) ==
    LET C == {j \in (1..Len(d)) \ {i} : LastRunDir(rs, SpinupDir(j)) # None} IN
    IF C = {} THEN None
    ELSE LastRunDir(rs, SpinupDir(CHOOSE j \in C : \A k \in C \ {j} : CloserThan(d, d[i], j, k)))

\* C21 (as claimed): when matching_run_dir finds no run in the target chain
\* and is asked to start from the closest parameters, it launches run 0 of
\* the chain with the last run of the nearest other parameter set that has a
\* run as tracer input, and with no tracer input when no other set has one.
C21_StartFromClosest ==
    [][(/\ ~Idle /\ Top.kind = "mrd" /\ Top.pc = "start" /\ Top.sfc
        /\ Top.chain[1] = "spinup"
        /\ LastRunDir(runs, Top.chain) = None
        /\ stack' # stack)
       => /\ 0 \in DOMAIN runs'[Top.chain]
          /\ runs'[Top.chain][0].inp = ClosestDonor(runs, db, Top.chain[2])
      ]_vars


\* C22: every run matching_run_dir launches computes with the model-only
\* parameters of the stored vector of its parameter set; run 0 of the chain
\* is launched with the trailing concentration factor of that vector, every
\* later run with factor 1.
C22_FactorOnlyForFirstRun ==
    [][\A i \in 1..MaxDb : \A k \in 0..MaxRuns :
        Launched(SpinupDir(i), k) =>
            /\ runs'[SpinupDir(i)][k].mp = <<db[i][1]>>
            /\ runs'[SpinupDir(i)][k].factor = (IF k = 0 THEN db[i][2] ELSE 1)
      ]_vars

\* A chain of a parameter set with a factor other than 1 has a first run
\* launched with that factor and a later run launched with factor 1.
C22_Witness ==
    \E i \in 1..Len(db) :
        /\ db[i][2] # 1
        /\ 1 \in DOMAIN runs[SpinupDir(i)]
        /\ runs[SpinupDir(i)][0].factor = db[i][2]
        /\ runs[SpinupDir(i)][1].factor = 1
        /\ runs[SpinupDir(i)][1].mp = <<db[i][1]>>


\* The nominal step of every component (line 854).
NominalStep == ParameterTypicalValue * MODEL_DERIVATIVE_STEP_SIZE

\* The component the perturbation starts from: the parameter, and 1 for the
\* trailing factor (line 836).
Unperturbed(i) == IF i = 2 THEN 1 ELSE mIn.parameters[i]

\* parameter_i + h_i lies outside the bounds of the component.
StepViolatesBound(i) ==
    \/ mIn.parameters[i] + NominalStep < ParametersLowerBound[i]
    \/ mIn.parameters[i] + NominalStep > ParametersUpperBound[i]

ClampedToBounds(i, x) ==
    IF x < ParametersLowerBound[i] THEN ParametersLowerBound[i]
    ELSE IF x > ParametersUpperBound[i] THEN ParametersUpperBound[i]
    ELSE x

HasF == ~Idle /\ Top.kind = "df" /\ Top.pc = "f"

\* C25 (as claimed): the base target of _df is its target with the years
\* reduced by the derivative years, and under accuracy order 1 the run used
\* for f is a run of the same spinup chain whose total years are the total
\* years of the base run plus the derivative years.
C25_BaseEvaluation ==
    /\ (~Idle /\ Top.kind = "df") =>
            Top.base = [Top.opts EXCEPT !.years = @ - MODEL_DERIVATIVE_SPINUP_YEARS]
    /\ HasF =>
            /\ ret # None /\ ret[1] = SpinupDir(Top.set)
            /\ GetTotalYears(runs, ret)
                 = GetTotalYears(runs, Top.smrd) + MODEL_DERIVATIVE_SPINUP_YEARS


\* C26 (as claimed): under accuracy order 1, when the run preceding the run
\* matched for the base target has total years equal to the total years of
\* the matched run minus the derivative years, that preceding run becomes
\* the base: the target of f is its total years plus the derivative years,
\* which the matched run satisfies, so f appends no run; it is the seed of
\* the perturbed runs, and it is an existing run of the chain. Otherwise the
\* matched run is the base.
C26_AdjacentRunCollapse ==
    [][(/\ ~Idle /\ Top.kind = "df" /\ Top.pc = "base"
        /\ cfg.accuracy_order = 1
        /\ stack' # stack)
       => LET prev == PreviousRunDir(ret)
              aligned == GetTotalYears(runs, prev)
                           = GetTotalYears(runs, ret) - MODEL_DERIVATIVE_SPINUP_YEARS
              df == stack'[Len(stack') - 1]
              f == stack'[Len(stack')]
          IN
          /\ aligned =>
                /\ df.smrd = prev
                /\ f.opts = [years |-> GetTotalYears(runs, prev) + MODEL_DERIVATIVE_SPINUP_YEARS,
                             tolerance |-> 0, combination |-> "or"]
                /\ IsRunMatchingOptions(runs, ret, f.opts)
                /\ df.smrd # None /\ HasJob(runs, df.smrd)
          /\ ~aligned => df.smrd = ret
      ]_vars


\* The components of the mask of the running df call that are set, in
\* increasing order (every component of the parameters without a mask).
ActiveComponents ==
    LET bits == IF call.mask.given THEN call.mask.bits ELSE DefaultMask(call.parameters)
        Active(i) == i <= Len(bits) /\ bits[i]
    IN SelectSeq(<<1, 2>>, Active)

\* The call is a df call whose parameters, mask and accuracy order are valid.
ValidDfCall ==
    /\ call.kind = "df"
    /\ CheckParameters(cfg, call.parameters) = "none"
    /\ DfValidation(cfg, call.parameters, call.mask) = "none"

\* C27 (as claimed): for every mask of the length of the parameters (without
\* a mask every component is active) the result of _df has exactly one row
\* per active component of the mask, in increasing parameter order;
\* perturbation runs are launched only for active components, and never for
\* the trailing factor when it is not part of the parameters.
C27_RowsOfActiveMask ==
    [][ValidDfCall' =>
        /\ call'.state = "returned" => call'.rows = ActiveComponents'
        /\ call'.state = "raised" => call'.error \in {"ExternalJobFailure", "OSError"}
        /\ \A c \in DerivChains : \A k \in 0..MaxRuns :
            Launched(c, k) =>
                /\ \E n \in 1..Len(ActiveComponents') : ActiveComponents'[n] = c[3]
                /\ c[3] = 2 => cfg.included
      ]_vars


\* The pair at hand has a last run in its perturbation directory whose job
\* can be loaded, and that run is not reusable.
StaleLastRun ==
    LET last == LastRunDir(runs, PartialDerivativeDir(Top, Pairs(cfg, Top.mask)[Top.i])) IN
    /\ last # None /\ HasJob(runs, last)
    /\ ~LastRunReusable

\* C28 (as claimed): when the last run of the perturbation directory of the
\* pair at hand is not reusable, its contents are discarded while its
\* directory stays, exactly one run is launched, in the same perturbation
\* directory, with the base spinup run as its tracer input and the derivative
\* years, and the engine goes on in the launch loop without waiting for it.
C28_StaleRunReplaced ==
    [][(DecidesOnPair /\ StaleLastRun) =>
        LET c == PartialDerivativeDir(Top, Pairs(cfg, Top.mask)[Top.i])
            last == LastRunDir(runs, c)
        IN
        /\ last[2] \in DOMAIN runs'[c] /\ runs'[c][last[2]].st = "removed"
        /\ \E k \in DOMAIN runs'[c] \ DOMAIN runs[c] :
            /\ DOMAIN runs'[c] = DOMAIN runs[c] \cup {k}
            /\ call'.launched = Append(call.launched, <<c, k>>)
            /\ runs'[c][k].inp = Top.smrd
            /\ Top.smrd # None => Top.smrd[1] = SpinupDir(Top.set)
            /\ runs'[c][k].req = MODEL_DERIVATIVE_SPINUP_YEARS
            /\ runs'[c][k].st = "executing" /\ ~runs'[c][k].obs
        /\ \A d \in ChainIds \ {c} : runs'[d] = runs[d]
        /\ \A j \in DOMAIN runs[c] \ {last[2]} : runs'[c][j] = runs[c][j]
        /\ stack' # <<>> /\ stack'[Len(stack')].pc = "launch"
        /\ Len(stack') = Len(stack)
      ]_vars


\* C29: when the listing of a chain directory fails with an OS/IO error,
\* run_dirs gives the empty list with a warning and raises nothing, and
\* last_run_dir gives None and raises nothing: what it gives for a chain
\* directory without runs.
C29_ListingFailureNotEscalated ==
    (mOut # None /\ mIn.listing = "error") =>
        /\ mOut.error = "none"
        /\ mOut.warned
        /\ mOut.op = "run_dirs" => mOut.dirs = {}
        /\ mOut.op = "last_run_dir" =>
            /\ mOut.value = None
            /\ mOut.value = LastRunDirListed([c \in ChainIds |-> <<>>], mIn.search_path, "ok").value

\* last_run_dir gave None for a directory that holds runs with jobs, because
\* its listing failed.
C29_Witness ==
    /\ mOut # None /\ mOut.op = "last_run_dir" /\ mIn.listing = "error"
    /\ mOut.value = None /\ mOut.warned
    /\ LastRunDir(runs, mIn.search_path) # None
    /\ HasJob(runs, LastRunDir(runs, mIn.search_path))


\* The lifecycle stage of the run: 0 created, 1 pending (job file written),
\* 2 executing (handed to the batch system), 3 finished, 4 read-only.
Stage(run) ==
    IF run.ro_output THEN 4
    ELSE IF run.st = "finished" THEN 3
    ELSE IF run.st \in {"executing", "failed"} THEN 2
    ELSE IF run.job_file THEN 1
    ELSE 0

\* C30: for a run started by start_run with read-only marking, the job is
\* launched only with its job file written, the inputs are marked read-only
\* only with the job launched, the outputs are marked read-only only with
\* the job seen finished by a wait, and no step takes the run to an earlier
\* lifecycle stage.
C30_LifecycleOrder ==
    [][mIn.make_read_only =>
        /\ (mOut.st = "none" /\ mOut'.st # "none") => mOut.job_file
        /\ (~mOut.ro_input /\ mOut'.ro_input) => mOut.st # "none"
        /\ (~mOut.ro_output /\ mOut'.ro_output) => (mOut.seen /\ mOut.st = "finished")
        /\ Stage(mOut') >= Stage(mOut)
        /\ (mOut.job_file => mOut'.job_file) /\ (mOut.ro_input => mOut'.ro_input)
        /\ (mOut.seen => mOut'.seen)
      ]_vars

\* A run started without waiting whose job was waited for later: job file
\* written, job finished and seen finished, inputs and outputs read-only.
C30_Witness ==
    /\ mOut # None /\ mIn # None
    /\ mIn.make_read_only /\ ~mIn.wait_until_finished
    /\ mOut.fn = "returned" /\ mOut.waits = 1
    /\ mOut.job_file /\ mOut.st = "finished" /\ mOut.seen
    /\ mOut.ro_input /\ mOut.ro_output


\* C31: over the _interpolate calls on one Model an interpolator is
\* constructed at most once and only by a call that finds none cached; the
\* geometry of a constructed interpolator is that of the call that built it
\* and never changes afterwards; the data values interpolated by a call are
\* those passed to that call.
C31_InterpolatorCache ==
    [][/\ mOut'.constructed <= 1
       /\ mOut'.constructed > mOut.constructed =>
            /\ mOut.cached = None
            /\ mOut'.cached.data_points = mOut'.data.data_points
            /\ mOut'.built = mOut'.data.data_points
       /\ mOut.cached # None => mOut'.cached.data_points = mOut.cached.data_points
       /\ mOut'.constructed = 1 => mOut'.cached.data_points = mOut'.built
       /\ mOut'.used.data_values = mOut'.data.data_values
       /\ mOut'.cached = mOut'.used
      ]_vars

\* A later call with other data points and values used the interpolator the
\* first call constructed, with the new values and the old geometry.
C31_Witness ==
    /\ mOut # None /\ mOut.calls >= 2 /\ mOut.constructed = 1
    /\ mOut.data.data_points # mOut.built
    /\ mOut.used.data_points = mOut.built
    /\ mOut.used.data_values = mOut.data.data_values


\* The runs this step appends to chain c.
Appended(c) == DOMAIN runs'[c] \ DOMAIN runs[c]

\* C32: a matching_run_dir call appends at most one run to the chain of its
\* parameter set under an 'or' target and at most two under an 'and' target,
\* and appends no run to any other chain; no step removes a run directory.
C32_BoundedChainGrowth ==
    [][call'.kind = "mrd" =>
        /\ \A c \in ChainIds \ {call'.chain} : DOMAIN runs'[c] = DOMAIN runs[c]
        /\ DOMAIN runs[call'.chain] \subseteq DOMAIN runs'[call'.chain]
        /\ IF Idle
           THEN Appended(call'.chain) = {}
           ELSE /\ call'.chain = call.chain
                /\ Cardinality(Appended(call.chain)) = Len(call'.launched) - Len(call.launched)
                /\ \A k \in Appended(call.chain) : call'.launched[Len(call'.launched)] = <<call.chain, k>>
        /\ call'.opts.combination = "or" => Len(call'.launched) <= 1
        /\ call'.opts.combination = "and" => Len(call'.launched) <= 2
      ]_vars

\* An 'and' call has returned after appending two runs to its chain, one for
\* each sub-target, while another chain holds runs.
C32_Witness ==
    /\ call.kind = "mrd" /\ call.state = "returned" /\ call.opts.combination = "and"
    /\ Len(call.launched) = 2
    /\ call.launched[1][1] = call.chain /\ call.launched[2] = <<call.chain, call.launched[1][2] + 1>>
    /\ \E c \in ChainIds \ {call.chain} : runs[c] # <<>>


\* C33 (as claimed): under both accuracy orders the perturbed component of
\* every pair lies within the bounds of the component, whatever the value,
\* the bounds and the step.
C33_PerturbedWithinBounds ==
    mOut # None =>
        \A n \in DOMAIN mOut : mIn.lower <= mOut[n] /\ mOut[n] <= mIn.upper


C35_DfIdempotent ==
    [][(call'.kind = "df" /\ call'.repeat) =>
        /\ \A c \in ChainIds :
            /\ DOMAIN runs'[c] = DOMAIN runs[c]
            /\ \A k \in DOMAIN runs[c] : runs'[c][k].st = runs[c][k].st
        /\ call'.launched = <<>>
      ]_vars


\* C36 (as claimed): _get_trajectory leaves the chain of the source run as
\* it is (no run appended, years and tolerance of its runs unchanged), never
\* marks the temporary run read-only, and when it has ended, returned or
\* raised, the temporary directory it created does not exist.
C36_TrajectoryFrame ==
    mOut # None =>
        /\ DOMAIN runs[TrajectoryRun[1]] = {0}
        /\ ~mOut.ro_input /\ ~mOut.ro_output
        /\ mOut.pc \in {"returned", "raised"} => mOut.trajectory_dir # "exists"


\* C37 (as claimed): for every job_setup a Model is constructed with and
\* every kind, job_setup(kind) returns a setup, which has a name, and no
\* change made to a returned setup changes what job_setup returns later.
C37_JobSetupIsolation ==
    [][/\ mOut'.returned.error # "not called" =>
            /\ mOut'.returned.error = "none"
            /\ mOut'.returned.setup.name # "absent"
       /\ mOut'.collection = mOut.collection
      ]_vars


\* C38: with every launched job ending, every matching_run_dir call ends
\* (it returns or raises); an 'and' call recurses only into 'or' sub-targets,
\* so at most one recursive call is on the stack and it recurses no further.
C38_Terminates ==
    /\ [](/\ Len(stack) <= 2
          /\ Len(stack) = 2 =>
                /\ stack[1].opts.combination = "and"
                /\ stack[1].pc \in {"and_years", "and_tolerance"}
                /\ stack[2].opts.combination = "or")
    /\ (~Idle /\ call.kind = "mrd") ~> (Idle /\ call.state \in {"returned", "raised"})

\* An 'and' call has returned after both of its sub-targets appended a run
\* and waited for its job.
C38_Witness ==
    /\ call.kind = "mrd" /\ call.opts.combination = "and"
    /\ call.state = "returned" /\ Idle
    /\ Len(call.launched) = 2

\* C39 (as claimed): after an assignment to Base.parameters the model's
\* parameters and concentrations are those of the most recent successful
\* assignment alone: a vector of the model's length leaves the base
\* concentrations, a vector one longer the base concentrations times its last
\* component; any other length raises ValueError and changes nothing.
C39_HistoryIndependent ==
    [][LET p == mOut'.assigned
           n == CostParametersLen
       IN  /\ Len(p) = n =>
                /\ mOut'.error = "none"
                /\ mOut'._parameters = p
                /\ mOut'.model_parameters = p
                /\ mOut'.concentrations = mIn.initial_base_concentrations
           /\ Len(p) = n + 1 =>
                /\ mOut'.error = "none"
                /\ mOut'._parameters = p
                /\ mOut'.model_parameters = SubSeq(p, 1, n)
                /\ mOut'.concentrations = Scaled(mIn.initial_base_concentrations, p[n + 1])
           /\ Len(p) \notin {n, n + 1} =>
                /\ mOut'.error = "ValueError"
                /\ mOut'._parameters = mOut._parameters
                /\ mOut'.model_parameters = mOut.model_parameters
                /\ mOut'.concentrations = mOut.concentrations
      ]_vars

\* C40 (as claimed): for every combination of legacy entries a job option
\* file starts with, applying the update function of update_new_option_entries
\* a second time leaves the set of entries the first application left, and a
\* file that had a tracer input path holds no initial concentrations after
\* any application.
C40_MigrationIdempotent ==
    mOut.pc = 0 =>
        /\ mOut.updates >= 2 => mOut.entries = mOut.once
        /\ (mOut.updates >= 1 /\ "/metos3d/tracer_input_path" \in mIn.entries)
                => "/metos3d/initial_concentrations" \notin mOut.entries

====
